---- MODULE Spec2Model ----
(***************************************************************************)
(* A model of the stremio-trakt-addon core: the Redis response cache and   *)
(* the request gateway (src/helpers/redis.js, src/api/trakt.js,            *)
(* src/api/tmdb.js), the watch-history synchronizer and its PostgreSQL     *)
(* tables (src/api/trakt.js, src/helpers/db.js, src/routes/trakt.js) and   *)
(* the catalog route (src/routes/catalog.js).                              *)
(*                                                                         *)
(* The specifications share the variables; each leaves untouched the      *)
(* variables it does not name:                                             *)
(*   SpecGateway   the cache and the gateway requests,                     *)
(*   SpecSync      the synchronizer passes and the history transactions,   *)
(*   SpecCatalog   local sorting, windowing and per-item enrichment,       *)
(*   SpecRace, SpecStore, SpecSites   the token refresh and token storage, *)
(*   SpecDuration, SpecInterval       the configured durations,            *)
(*   SpecOverlap, SpecUpsert, SpecAnnotate, SpecSort   the history passes  *)
(*   of overlapping requests, the /callback saves, the watched markers     *)
(*   and the list sort.                                                    *)
(*   SpecKeys      the cache keys of calls that differ in one argument,    *)
(*   SpecCallback, SpecPairs   the /callback route and the stored pair,    *)
(*   SpecSettle    requests over a cache that holds text of another writer,*)
(*   SpecFetch     the history calls of a pass as gateway requests.        *)
(***************************************************************************)
EXTENDS Integers, Sequences, FiniteSets, TLC

(***************************************************************************)
(* Bounds of the model.                                                    *)
(***************************************************************************)
\* The clock runs 0..MaxTime; one tick is one day.
MaxTime == 1
\* Gateway requests issued in one behaviour.
MaxRequests == 2
\* Calls of handleTraktHistory in one behaviour.
MaxPasses == 2
\* In-flight ceiling of one gateway queue.
maxConcurrent == 1
\* Jobs one gateway queue starts in one unit of time.
rateCeiling == 1

(***************************************************************************)
(* Program constants.                                                      *)
(***************************************************************************)
\* process.env.TRAKT_CACHE_DURATION || '1d', in days.
TRAKT_CACHE_DURATION == 1
\* process.env.TMDB_CACHE_DURATION || '1d', in days.
TMDB_CACHE_DURATION == 1

Min(a, b) == IF a < b THEN a ELSE b

(***************************************************************************)
(* JSON text.  A response body is an array of small numbers; its JSON text *)
(* is the sequence of its characters.                                      *)
(***************************************************************************)
DigitChars == <<"0", "1", "2", "3", "4", "5", "6", "7", "8", "9">>

DigitOf(c) == CHOOSE n \in 0..9 : DigitChars[n + 1] = c

RECURSIVE JoinElems(_)
JoinElems(arr) ==
    IF arr = <<>> THEN <<>>
    ELSE IF Len(arr) = 1 THEN <<DigitChars[arr[1] + 1]>>
    ELSE <<DigitChars[arr[1] + 1], ",">> \o JoinElems(Tail(arr))

JSONstringify(arr) == <<"[">> \o JoinElems(arr) \o <<"]">>

RECURSIVE ParseElems(_)
ParseElems(text) ==
    IF text = <<>> THEN <<>>
    ELSE IF text[1] \in {",", "[", "]"} THEN ParseElems(Tail(text))
    ELSE <<DigitOf(text[1])>> \o ParseElems(Tail(text))

JSONparse(text) == ParseElems(text)

\* Whether JSON.parse accepts the text; it throws a SyntaxError otherwise.
RECURSIVE ElementList(_)
ElementList(text) ==
    /\ text # <<>>
    /\ \E n \in 1..Len(DigitChars) : DigitChars[n] = text[1]
    /\ \/ Len(text) = 1
       \/ /\ Len(text) > 2
          /\ text[2] = ","
          /\ ElementList(SubSeq(text, 3, Len(text)))

ParsesAsJSON(text) ==
    /\ Len(text) > 1
    /\ text[1] = "["
    /\ text[Len(text)] = "]"
    /\ Len(text) = 2 \/ ElementList(SubSeq(text, 2, Len(text) - 1))

\* The bodies upstream answers with.
ResponseData == {<<>>, <<1, 2>>}

(***************************************************************************)
(* Gateway requests and their cache keys.                                  *)
(***************************************************************************)
Rid == 1..MaxRequests
QueueNames == {"GET", "POST", "TMDB"}

\* Text that goes into a key is a sequence of pieces.  ":" is a piece of its
\* own; every other piece is text without ":".  Template strings concatenate.
Colon == <<":">>

\* `${TRAKT_BASE_URL}${path}`
Url(path) == <<"https", ":", path>>

\* No access token (null, or the empty string, which is falsy as well).
NoToken == <<>>

\* accessToken || 'public'
OrPublic(accessToken) ==
    IF accessToken = NoToken THEN <<"public">> ELSE accessToken

\* JSON.stringify of a request body: an object given as its fields in order,
\* each a pair <<name, value>>.
RECURSIVE JoinFields(_)
JoinFields(data) ==
    IF data = <<>> THEN <<>>
    ELSE IF Len(data) = 1 THEN <<data[1][1], ":", data[1][2]>>
    ELSE <<data[1][1], ":", data[1][2], ",">> \o JoinFields(Tail(data))

StringifyBody(data) == <<"{">> \o JoinFields(data) \o <<"}">>

\* A mutant of GetCacheKey: the key leaves the access token out.
GetCacheKey_noScope(accessToken, url) ==
    <<"trakt", ":", "GET", ":", "public">> \o Colon \o url

\* `trakt:GET:${accessToken || 'public'}:${url}`
GetCacheKey(accessToken, url) ==
    <<"trakt", ":", "GET", ":">> \o OrPublic(accessToken) \o Colon \o url
\* `trakt:POST:${accessToken || 'public'}:${url}:${JSON.stringify(data)}`
PostCacheKey(accessToken, url, data) ==
    <<"trakt", ":", "POST", ":">> \o OrPublic(accessToken) \o Colon \o url
        \o Colon \o StringifyBody(data)
\* `tmdb:${type}:${tmdbId}:${language}`
generateRedisKey(tmdbId, type, language) ==
    <<"tmdb", ":", type, ":", tmdbId, ":", language>>

\* A call of the gateway: its queue, its arguments and its cache key.
NoArgs == [accessToken |-> NoToken, url |-> <<>>, data |-> <<>>]

makeGetRequest(url, accessToken) ==
    [kind |-> "GET",
     args |-> [accessToken |-> accessToken, url |-> url, data |-> <<>>],
     key |-> GetCacheKey(accessToken, url)]

makePostRequest(url, data, accessToken) ==
    [kind |-> "POST",
     args |-> [accessToken |-> accessToken, url |-> url, data |-> data],
     key |-> PostCacheKey(accessToken, url, data)]

getMetadataByTmdbId(tmdbId, type, language) ==
    [kind |-> "TMDB",
     args |-> [accessToken |-> NoToken,
               url |-> <<type, tmdbId, language>>, data |-> <<>>],
     key |-> generateRedisKey(tmdbId, type, language)]

\* exchangeCodeForToken(code): makePostRequest of the token endpoint with
\* the code in the body and no access token.
exchangeCodeForToken(code) ==
    makePostRequest(Url("/oauth/token"),
                    <<<<"code", code>>,
                      <<"client_id", "TRAKT_API_KEY">>,
                      <<"client_secret", "TRAKT_CLIENT_SECRET">>,
                      <<"redirect_uri", "TRAKT_REDIRECT_URI">>,
                      <<"grant_type", "authorization_code">>>>,
                    NoToken)

\* The calls a behaviour of the gateway may make.
GatewayCalls ==
    {makeGetRequest(Url("/users/u1"), t) : t \in {NoToken, <<"tokA">>}}
    \cup {exchangeCodeForToken("c1")}
    \cup {getMetadataByTmdbId("603", "movie", "en-US")}

\* Calls that differ in one argument only.  Access tokens are the opaque
\* strings upstream issues: one piece each.
ScopedTokens == {NoToken, <<"tokA">>, <<"tokB">>}

ScopedBodies == {<<<<"id", "1">>>>, <<<<"id", "2">>>>}

ScopedCalls ==
    {makeGetRequest(Url("/sync"), t) : t \in ScopedTokens}
    \cup {makePostRequest(Url("/sync"), d, t) :
              d \in ScopedBodies, t \in ScopedTokens}

\* The users of the addon and the two watched-history batches of a pass.
Users == {"u1", "u2"}
Batches == {"movies", "shows"}

\* An access token of a stored pair is the number of the pair; as text it
\* is one piece.
TokenText(t) == <<DigitChars[t + 1]>>

\* fetchData(endpoint, {}, accessToken): the query string of no parameters
\* is empty and the "?" stays.
fetchData(endpoint, accessToken) ==
    makeGetRequest(Url(endpoint[1]) \o Tail(endpoint) \o <<"?">>, accessToken)

\* fetchUserHistory(username, type, accessToken) up to the answer.
fetchUserHistory(username, type, accessToken) ==
    fetchData(<<"/users/", username, "/watched/", type>>, accessToken)

\* The history calls of the passes: a pass issues one per batch with the
\* stored pair and, after a refresh, one per batch with the new pair.
HistoryCalls ==
    {fetchUserHistory(u, b, TokenText(t)) :
         u \in Users, b \in Batches, t \in 0..MaxPasses}

FetchId(p, attempt, b) ==
    MaxRequests + 4 * (p - 1) + 2 * (attempt - 1)
        + (IF b = "movies" THEN 1 ELSE 2)

FetchIds == {FetchId(p, a, b) : p \in 1..MaxPasses, a \in 1..2, b \in Batches}

CacheKeys == {c.key : c \in GatewayCalls \cup ScopedCalls \cup HistoryCalls}

NoEntry == [val |-> <<>>, exp |-> 0]
NoOut == [st |-> "none", val |-> <<>>, status |-> 0]
IdleReq == [pc |-> "idle", kind |-> "GET", args |-> NoArgs,
            key |-> GetCacheKey(NoToken, <<>>),
            data |-> <<>>, out |-> NoOut, enq |-> FALSE, calls |-> 0,
            liveAtLookup |-> FALSE, liveText |-> <<>>,
            up |-> NoOut]

VARIABLES
    now,              \* the clock
    redisStore,       \* the Redis server: key -> [val, exp]
    redisUp,          \* whether the Redis server answers
    redisUnavailable, \* redis.js: let redisUnavailable
    req,              \* the gateway requests: Rid -> record
    queue,            \* per queue, the jobs waiting (submission order)
    running,          \* per queue, the jobs in flight
    started,          \* per queue, the jobs started in this unit of time
    trakt_tokens,     \* table trakt_tokens: username -> row
    trakt_history,    \* table trakt_history: the committed rows, by id
    hver,             \* number of commits to trakt_history so far
    issued,           \* token pairs upstream has issued by refresh
    pass,             \* the handleTraktHistory calls: PassIds -> record
    txn,              \* the saveUserWatchedHistory transactions
    cat,              \* the catalog request being served
    rf,               \* concurrent callers of the token-expiry branch
    ts,               \* the credential records and the calls that use them
    site,             \* a watchlist or recommendations fetch being served
    dur,              \* a process with its cache-duration setting and a request
    ivl,              \* a process with its fetch-interval setting and a pass
    ann,              \* an Annotate under a configured marker
    cb                \* the GET /callback requests in progress

cacheVars ==
    <<redisStore, redisUp, redisUnavailable, req, queue, running, started>>
syncVars == <<trakt_tokens, trakt_history, hver, issued, pass, txn>>

confVars == <<dur, ivl, ann>>

flowVars == <<cb>>

siteVars == <<rf, ts, site, confVars, flowVars>>

vars == <<now, cacheVars, syncVars, cat, siteVars>>

(***************************************************************************)
(* The Redis server and safeRedisCall.                                     *)
(***************************************************************************)
\* An entry is served until its expiry.
Live(key) == redisStore[key].exp > now

\* GET key: the text, or nil for an absent or expired entry.
RedisGET(key) ==
    IF Live(key) THEN [nil |-> FALSE, text |-> redisStore[key].val]
    ELSE [nil |-> TRUE, text |-> <<>>]

\* A mutant of RedisSET: the entry is written without its lifetime.
RedisSET_expired(key, text, ttl) ==
    [redisStore EXCEPT ![key] = [val |-> text, exp |-> now]]

\* SET key text EX ttl.
RedisSET(key, text, ttl) ==
    [redisStore EXCEPT ![key] = [val |-> text, exp |-> now + ttl]]

\* A Redis operation succeeds when the connection is established and the
\* server executes the command (ok); otherwise its promise rejects.
OpSucceeds(ok) == redisUp /\ ok

\* A mutant of safeRedisGet: the failure of the operation is not caught.
safeRedisGet_raw(key, ok) == RedisGET(key)

\* What `await redisClient[operation](...)` inside safeRedisCall yields for a
\* get: the server's answer, or null when the operation throws.
safeRedisGet(key, ok) ==
    IF OpSucceeds(ok) THEN RedisGET(key) ELSE [nil |-> TRUE, text |-> <<>>]

\* A mutant of CacheHit: the lookup result is ignored.
CacheHit_ignored(cachedData) == FALSE

\* `if (cachedData)`: a non-null, non-empty string.
CacheHit(cachedData) == ~cachedData.nil /\ cachedData.text # <<>>

\* parseCacheDuration(process.env.X_CACHE_DURATION || '1d') of the request's
\* provider.
cacheDuration(kind) ==
    IF kind = "TMDB" THEN TMDB_CACHE_DURATION ELSE TRAKT_CACHE_DURATION

\* The fields getMetadataByTmdbId keeps of the TMDB body.
TmdbResult(data) == SubSeq(data, 1, Min(Len(data), 2))

\* What the request hands its caller and the cache for an upstream body.
ResultOf(kind, data) == IF kind = "TMDB" THEN TmdbResult(data) ELSE data

(***************************************************************************)
(* The queues (the bottleneck helpers): a job waits in submission order   *)
(* and starts when fewer than maxConcurrent jobs of its queue are in     *)
(* flight and fewer than rateCeiling jobs of its queue have started in    *)
(* the current unit of time.                                               *)
(***************************************************************************)
addToQueue(q, r) == [queue EXCEPT ![q] = Append(@, r)]

\* A mutant of HasSlot: the ceilings are not enforced.
HasSlot_any(q) == TRUE

HasSlot(q) ==
    /\ Cardinality(running[q]) < maxConcurrent
    /\ started[q] < rateCeiling

(***************************************************************************)
(* Gateway actions.                                                        *)
(***************************************************************************)
\* A unit of time passes: expired entries are gone and every queue opens a
\* new rate window.  The clock is counted up to MaxTime; after that only
\* the rate windows go on.
Tick ==
    /\ IF now < MaxTime THEN TRUE ELSE \E q \in QueueNames : started[q] > 0
    /\ now' = Min(now + 1, MaxTime)
    /\ redisStore' = [k \in CacheKeys |->
                        IF redisStore[k].exp > now' THEN redisStore[k]
                        ELSE NoEntry]
    /\ started' = [q \in QueueNames |-> 0]
    /\ UNCHANGED <<redisUp, redisUnavailable,
                   req, queue, running>>
    /\ UNCHANGED <<syncVars, cat, siteVars>>

\* The connection to the Redis server is lost.
RedisGoesDown ==
    /\ redisUp
    /\ redisUp' = FALSE
    /\ UNCHANGED <<now, redisStore, redisUnavailable,
                   req, queue, running>>
    /\ UNCHANGED <<started, syncVars, cat, siteVars>>

\* redisClient.on('error')
OnRedisError ==
    /\ ~redisUp
    /\ redisUnavailable' = TRUE
    /\ ~redisUnavailable
    /\ UNCHANGED <<now, redisStore, redisUp, req, queue, running>>
    /\ UNCHANGED <<started, syncVars, cat, siteVars>>

\* redisClient.on('ready'): the client emits 'ready' when it has established
\* the connection again, and only then; the handler clears the mark.
OnRedisReady ==
    /\ ~redisUp
    /\ redisUp' = TRUE
    /\ redisUnavailable' = FALSE
    /\ UNCHANGED <<now, redisStore, req, queue, running>>
    /\ UNCHANGED <<started, syncVars, cat, siteVars>>

\* The miss branch of a request: the job is submitted to its queue.
Enqueue(r, rec) ==
    /\ req' = [req EXCEPT ![r] = [rec EXCEPT !.pc = "queued", !.enq = TRUE]]
    /\ queue' = addToQueue(rec.kind, r)

\* makeGetRequest / makePostRequest / getMetadataByTmdbId up to the first
\* await: safeRedisCall returns null at once when Redis is marked
\* unavailable, otherwise the get is sent.
Call(r, c) ==
    /\ req[r].pc = "idle"
    /\ IF r = 1 THEN TRUE ELSE req[r - 1].pc # "idle"
    /\ LET rec == [IdleReq EXCEPT !.kind = c.kind, !.args = c.args,
                                  !.key = c.key] IN
       IF redisUnavailable
       THEN Enqueue(r, rec)
       ELSE /\ req' = [req EXCEPT ![r] = [rec EXCEPT !.pc = "awaitGet"]]
            /\ UNCHANGED queue
    /\ UNCHANGED <<now, redisStore, redisUp, redisUnavailable,
                   running>>
    /\ UNCHANGED <<started, syncVars, cat, siteVars>>

\* `return resolve(JSON.parse(cachedData))` in the async executor of
\* makeGetRequest / makePostRequest, `return JSON.parse(cachedData)` in the
\* try block of getMetadataByTmdbId.  A SyntaxError thrown in the executor
\* rejects the promise the executor returns, which nothing holds: the
\* request's own promise is neither resolved nor rejected.  In
\* getMetadataByTmdbId the catch rethrows and the call rejects.
OnCacheHit(rec, text) ==
    IF ParsesAsJSON(text)
    THEN [rec EXCEPT !.pc = "done",
                     !.out = [st |-> "ok", val |-> JSONparse(text),
                              status |-> 200]]
    ELSE IF rec.kind = "TMDB"
    THEN [rec EXCEPT !.pc = "done",
                     !.out = [st |-> "err", val |-> <<>>, status |-> 0]]
    ELSE [rec EXCEPT !.pc = "pending"]

\* The get settles: a hit resolves the request with the parsed text, a miss
\* (or a failed operation, which marks Redis unavailable) submits the job.
RedisGetReply(r, ok) ==
    /\ req[r].pc = "awaitGet"
    /\ LET cachedData == safeRedisGet(req[r].key, ok)
           rec == [req[r] EXCEPT
                     !.liveAtLookup = OpSucceeds(ok) /\ Live(req[r].key),
                     !.liveText = IF OpSucceeds(ok) /\ Live(req[r].key)
                                  THEN redisStore[req[r].key].val ELSE <<>>]
       IN
       /\ redisUnavailable' = (redisUnavailable \/ ~OpSucceeds(ok))
       /\ IF CacheHit(cachedData)
          THEN /\ req' = [req EXCEPT ![r] = OnCacheHit(rec, cachedData.text)]
               /\ UNCHANGED queue
          ELSE Enqueue(r, rec)
    /\ UNCHANGED <<now, redisStore, redisUp, running>>
    /\ UNCHANGED <<started, syncVars, cat, siteVars>>

\* The queue starts its oldest waiting job: fn() issues the upstream call.
QueueStart(q) ==
    /\ queue[q] # <<>>
    /\ HasSlot(q)
    /\ LET r == Head(queue[q]) IN
       /\ queue' = [queue EXCEPT ![q] = Tail(@)]
       /\ running' = [running EXCEPT ![q] = @ \cup {r}]
       /\ started' = [started EXCEPT ![q] = @ + 1]
       /\ req' = [req EXCEPT ![r].pc = "upstream", ![r].calls = @ + 1]
    /\ UNCHANGED <<now, redisStore, redisUp, redisUnavailable>>
    /\ UNCHANGED <<syncVars, cat, siteVars>>

\* Upstream answers 200 with a body: the result is written to the cache
\* (skipped when Redis is marked unavailable) and handed to the caller.
UpstreamOk(r, data) ==
    /\ req[r].pc = "upstream"
    /\ LET k == req[r].kind
           res == ResultOf(k, data)
       IN
       IF redisUnavailable
       THEN /\ req' = [req EXCEPT ![r].pc = "done",
                         ![r].up = [st |-> "ok", val |-> data, status |-> 200],
                         ![r].out = [st |-> "ok", val |-> res, status |-> 200]]
            /\ running' = [running EXCEPT ![k] = @ \ {r}]
       ELSE /\ req' = [req EXCEPT ![r].pc = "awaitSet", ![r].data = res,
                         ![r].up = [st |-> "ok", val |-> data, status |-> 200]]
            /\ running' = IF k = "TMDB"
                          THEN [running EXCEPT ![k] = @ \ {r}]
                          ELSE running
    /\ UNCHANGED <<now, redisStore, redisUp, redisUnavailable,
                   queue>>
    /\ UNCHANGED <<started, syncVars, cat, siteVars>>

\* A mutant of UpstreamFail: the first failure of a request submits its job
\* again instead of rejecting.
UpstreamFail_retry(r, status) ==
    /\ req[r].pc = "upstream"
    /\ req[r].calls = 1
    /\ req' = [req EXCEPT ![r].pc = "queued",
                 ![r].up = [st |-> "err", val |-> <<>>, status |-> status]]
    /\ queue' = addToQueue(req[r].kind, r)
    /\ running' = [running EXCEPT ![req[r].kind] = @ \ {r}]
    /\ UNCHANGED <<now, redisStore, redisUp, redisUnavailable>>
    /\ UNCHANGED <<started, syncVars, cat, siteVars>>

\* A mutant of UpstreamFail: the failure is written to the cache as an
\* empty result.
UpstreamFail_cached(r, status) ==
    /\ req[r].pc = "upstream"
    /\ req' = [req EXCEPT ![r].pc = "done",
                 ![r].up = [st |-> "err", val |-> <<>>, status |-> status],
                 ![r].out = [st |-> "err", val |-> <<>>, status |-> status]]
    /\ running' = [running EXCEPT ![req[r].kind] = @ \ {r}]
    /\ redisStore' = RedisSET(req[r].key, JSONstringify(<<>>),
                              cacheDuration(req[r].kind))
    /\ UNCHANGED <<now, redisUp, redisUnavailable, queue>>
    /\ UNCHANGED <<started, syncVars, cat, siteVars>>

\* Upstream fails (an HTTP status, or 0 for a network error): the request
\* rejects with the failure.
UpstreamFail(r, status) ==
    /\ req[r].pc = "upstream"
    /\ req' = [req EXCEPT ![r].pc = "done",
                 ![r].up = [st |-> "err", val |-> <<>>, status |-> status],
                 ![r].out = [st |-> "err", val |-> <<>>, status |-> status]]
    /\ running' = [running EXCEPT ![req[r].kind] = @ \ {r}]
    /\ UNCHANGED <<now, redisStore, redisUp, redisUnavailable,
                   queue>>
    /\ UNCHANGED <<started, syncVars, cat, siteVars>>

\* The set settles (stored, or failed and Redis marked unavailable); the
\* request resolves with the upstream result.
RedisSetReply(r, ok) ==
    /\ req[r].pc = "awaitSet"
    /\ LET k == req[r].kind IN
       /\ redisStore' = IF OpSucceeds(ok)
                        THEN RedisSET(req[r].key, JSONstringify(req[r].data),
                                      cacheDuration(k))
                        ELSE redisStore
       /\ redisUnavailable' = (redisUnavailable \/ ~OpSucceeds(ok))
       /\ req' = [req EXCEPT ![r].pc = "done",
                    ![r].out = [st |-> "ok", val |-> req[r].data, status |-> 200]]
       /\ running' = [running EXCEPT ![k] = @ \ {r}]
    /\ UNCHANGED <<now, redisUp, queue>>
    /\ UNCHANGED <<started, syncVars, cat, siteVars>>

InitGateway ==
    /\ now = 0
    /\ redisStore = [k \in CacheKeys |-> NoEntry]
    /\ redisUp = TRUE
    /\ redisUnavailable = FALSE
    /\ req = [r \in Rid \cup FetchIds |-> IdleReq]
    /\ queue = [q \in QueueNames |-> <<>>]
    /\ running = [q \in QueueNames |-> {}]
    /\ started = [q \in QueueNames |-> 0]

NextGateway ==
    \/ Tick
    \/ RedisGoesDown
    \/ OnRedisError
    \/ OnRedisReady
    \/ \E r \in Rid, c \in GatewayCalls : Call(r, c)
    \/ \E r \in Rid, ok \in BOOLEAN : RedisGetReply(r, ok)
    \/ \E q \in QueueNames : QueueStart(q)
    \/ \E r \in Rid, data \in ResponseData : UpstreamOk(r, data)
    \/ \E r \in Rid, status \in {0, 401, 500} : UpstreamFail(r, status)
    \/ \E r \in Rid, ok \in BOOLEAN : RedisSetReply(r, ok)

(***************************************************************************)
(* C1: a request whose key had a live, unexpired entry in an available     *)
(* cache when it looked the key up is resolved with the cached value, is   *)
(* never enqueued and issues no upstream call.                             *)
(***************************************************************************)
C1_CacheHitNoUpstream ==
    \A r \in Rid :
        req[r].liveAtLookup =>
            /\ req[r].pc = "done"
            /\ req[r].out.st = "ok"
            /\ JSONstringify(req[r].out.val) = req[r].liveText
            /\ ~req[r].enq
            /\ req[r].calls = 0
            /\ \A q \in QueueNames :
                   /\ r \notin running[q]
                   /\ \A i \in 1..Len(queue[q]) : queue[q][i] # r

C1_Witness ==
    \E r \in Rid :
        /\ req[r].liveAtLookup
        /\ req[r].pc = "done"
        /\ req[r].out.val = <<1, 2>>

(***************************************************************************)
(* C11: the cache is fail-open.  A get that finds the cache marked         *)
(* unavailable, or whose operation fails, counts as a miss: the request is *)
(* submitted to its queue.  A set that is skipped or fails changes no      *)
(* entry of the store.  A request that went upstream ends with the         *)
(* upstream result, as without a cache: the body upstream answered, or the *)
(* upstream failure; nothing else is ever handed to the caller.            *)
(***************************************************************************)
GetSettles(r) == req[r].pc = "awaitGet" /\ req'[r].pc # "awaitGet"

GetSkipped(r) == req[r].pc = "idle" /\ req'[r].pc # "idle" /\ redisUnavailable

SetSettles(r) == req[r].pc = "awaitSet" /\ req'[r].pc # "awaitSet"

SetSkipped(r) ==
    req[r].pc = "upstream" /\ req'[r].up.st = "ok" /\ redisUnavailable

Submitted(r) == req'[r].pc = "queued" /\ req'[r].enq

Resolved(r) ==
    /\ req'[r].pc = "done"
    /\ req'[r].out = [st |-> "ok", status |-> 200,
                      val |-> ResultOf(req[r].kind, req'[r].up.val)]

C11_AsUncached ==
    \A r \in Rid :
        (req[r].pc = "done" /\ req[r].enq) =>
            /\ req[r].up.st \in {"ok", "err"}
            /\ req[r].out.st = req[r].up.st
            /\ req[r].out.status = req[r].up.status
            /\ req[r].out.val = ResultOf(req[r].kind, req[r].up.val)

C11_FailOpen ==
    /\ []C11_AsUncached
    /\ [][\A r \in Rid :
             /\ GetSkipped(r) => Submitted(r)
             /\ GetSettles(r) =>
                    \/ Submitted(r)
                    \/ redisUp /\ Live(req[r].key) /\ req'[r].pc = "done"
             /\ (GetSettles(r) /\ ~redisUp) => Submitted(r)
             /\ SetSkipped(r) => Resolved(r) /\ redisStore' = redisStore
             /\ SetSettles(r) =>
                    /\ Resolved(r)
                    /\ redisStore' = redisStore \/ redisUp
             /\ (SetSettles(r) /\ ~redisUp) => redisStore' = redisStore
             /\ ((GetSettles(r) \/ SetSettles(r))
                    /\ redisUnavailable' /\ ~redisUnavailable) =>
                       /\ redisStore' = redisStore
                       /\ req'[r].pc \in {"queued", "done"}]_vars

C11_Witness ==
    \E r \in Rid :
        /\ redisUnavailable
        /\ now = 0
        /\ req[r].pc = "done"
        /\ req[r].enq
        /\ req[r].out.st = "ok"
        /\ req[r].out.val = <<1, 2>>
        /\ redisStore[req[r].key] = NoEntry

(***************************************************************************)
(* The duration settings.  A setting is the text of an environment         *)
(* variable: a sequence of characters, empty when the variable is unset or *)
(* empty.                                                                  *)
(***************************************************************************)
\* The longest setting text.
MaxSetting == 3
SettingChars == {"1", "2", "d", "h", "x", "-"}
Settings == UNION {[1..k -> SettingChars] : k \in 0..MaxSetting}

\* process.env.X || fallback
OrDefault(env, fallback) == IF env = <<>> THEN fallback ELSE env

\* \d
IsDigit(c) == \E n \in 0..9 : DigitChars[n + 1] = c

\* The number a run of decimal digits denotes.
RECURSIVE DecimalValue(_)
DecimalValue(digits) ==
    IF digits = <<>> THEN 0
    ELSE 10 * DecimalValue(SubSeq(digits, 1, Len(digits) - 1))
         + DigitOf(digits[Len(digits)])

\* The longest prefix of str made of digits.
RECURSIVE LeadingDigits(_)
LeadingDigits(str) ==
    IF str = <<>> \/ ~IsDigit(str[1]) THEN <<>>
    ELSE <<str[1]>> \o LeadingDigits(Tail(str))

\* A number that may be NaN.
NaN == [nan |-> TRUE, n |-> 0]
Num(n) == [nan |-> FALSE, n |-> n]

\* parseInt(str, 10): an optional sign, then the digits up to the first
\* other character; NaN when there is no digit.
parseInt(str) ==
    LET signed == str # <<>> /\ str[1] \in {"-", "+"}
        digits == LeadingDigits(IF signed THEN Tail(str) ELSE str)
    IN  IF digits = <<>> THEN NaN
        ELSE IF signed /\ str[1] = "-" THEN Num(0 - DecimalValue(digits))
        ELSE Num(DecimalValue(digits))

\* str.slice(0, -1) and str.slice(-1)
SliceButLast(str) == SubSeq(str, 1, Len(str) - 1)
SliceLast(str) == IF str = <<>> THEN <<>> ELSE <<str[Len(str)]>>

SecondsPerHour == 3600
SecondsPerDay == 86400

\* A thrown Error, or the value returned.
Thrown == [threw |-> TRUE, value |-> 0]
Returned(v) == [threw |-> FALSE, value |-> v]

\* duration.match(/^(\d+)([dh])$/)
DurationMatch(duration) ==
    /\ Len(duration) >= 2
    /\ \A k \in 1..(Len(duration) - 1) : IsDigit(duration[k])
    /\ duration[Len(duration)] \in {"d", "h"}

\* parseCacheDuration(duration), in seconds.
parseCacheDuration(duration) ==
    IF ~DurationMatch(duration) THEN Thrown
    ELSE LET value == parseInt(SliceButLast(duration)).n
             unit == SliceLast(duration)
         IN  Returned(IF unit = <<"d">> THEN value * SecondsPerDay
                      ELSE value * SecondsPerHour)

\* A request of a process whose TRAKT_CACHE_DURATION is env: up is the
\* upstream reply, out what the caller gets, ttl the expiry of the entry
\* written (empty when none was written).
IdleDur ==
    [pc |-> "unset", env |-> <<>>, up |-> "none", out |-> "none",
     status |-> 0, ttl |-> <<>>]

HoursPerDay == 24

\* The immediately invoked arrow function of handleTraktHistory that
\* computes intervalInMs, with the hour as the unit of time: NaN times a
\* number is NaN, and a unit other than h and d throws.
intervalInMs(fetchInterval) ==
    LET intervalValue == parseInt(SliceButLast(fetchInterval))
        intervalUnit == SliceLast(fetchInterval)
    IN  IF intervalUnit = <<"h">>
        THEN Returned(intervalValue)
        ELSE IF intervalUnit = <<"d">>
        THEN Returned(IF intervalValue.nan THEN NaN
                      ELSE Num(intervalValue.n * HoursPerDay))
        ELSE Thrown

\* x >= y for a number x and a y that may be NaN.
GreaterOrEqual(x, y) == ~y.nan /\ x >= y.n

\* What the Check query finds for the user: no record, a record never
\* stamped, or a record stamped so many hours ago.  now - new Date(null) is
\* the time since 1970.
HoursSinceEpoch == 400000
StampAges == {0, 1, 30}
CheckRows ==
    {<<"absent">>, <<"null">>} \cup {<<"stamped", age>> : age \in StampAges}
ElapsedOf(row) == IF row = <<"null">> THEN HoursSinceEpoch ELSE row[2]

\* A handleTraktHistory call of a process whose
\* TRAKT_HISTORY_FETCH_INTERVAL is env.
IdleIvl ==
    [pc |-> "unset", env |-> <<>>, row |-> <<"absent">>, store |-> FALSE]

(***************************************************************************)
(* The history synchronizer: handleTraktHistory (Check, Fetch with one     *)
(* token refresh, Upsert, stamp, Annotate) over the tables trakt_tokens    *)
(* and trakt_history.  Every await is a step; a promise reaction runs in   *)
(* the step that settles the promise.  History calls are answered by       *)
(* upstream with a body, a 401 or another failure.                         *)
(***************************************************************************)
TRAKT_HISTORY_FETCH_INTERVAL == 1
Epoch == -20000

NULL == "NULL"
PassIds == 1..MaxPasses
watchedEmoji == "watched"

\* An element of the upstream watched-history response.
HistoryItem(kind, imdb, tmdb, title, at) ==
    [kind |-> kind, imdb |-> imdb, tmdb |-> tmdb, title |-> title,
     last_watched_at |-> at]

m1 == HistoryItem("movie", "tt1", "1", "A", 1)
mN == HistoryItem("movie", NULL, "2", "B", 1)
s1 == HistoryItem("show", "tt9", "9", "S", 1)

Histories(b) == IF b = "movies" THEN {<<m1, mN>>} ELSE {<<>>, <<s1>>}

\* What upstream answers to a watched-history call: a body, or a failure
\* with its HTTP status.
FetchOutcomes(b) ==
    {[st |-> "ok", history |-> h, status |-> 200] : h \in Histories(b)}
        \cup {[st |-> "fail", history |-> <<>>, status |-> c] : c \in {401, 500}}

\* An Error object: its message and the HTTP status of error.response
\* (0 when the error has no response).
Err(message, status) == [message |-> message, status |-> status]

NoErr == Err("none", 0)

\* The error of a failed database query.
DbError == Err("db", 0)

\* The catalog items handed to handleTraktHistory.
filteredResults ==
    << [id |-> "tt1", name |-> <<"A">>, title |-> <<"A">>],
       [id |-> "tt9", name |-> <<>>, title |-> <<"S">>],
       [id |-> "tt5", name |-> <<"Z">>, title |-> <<"Z">>] >>

NoTokensRow ==
    [present |-> FALSE, access_token |-> 0, refresh_token |-> 0,
     last_fetched_at |-> <<>>]

NoRef == [src |-> "none", i |-> 0]

\* The rows of trakt_tokens as a table: username is UNIQUE, access_token
\* and refresh_token are NOT NULL, last_fetched_at defaults to NULL.
MaxPersist == 2
Usernames == {"u1", "u2"}
\* What the token endpoint hands the callback: "" stands for a missing or
\* empty field.
TokenTexts == {"", "tA", "tB"}

TokenRow(username, accessToken, refreshToken) ==
    [username |-> username, access_token |-> accessToken,
     refresh_token |-> refreshToken, last_fetched_at |-> <<>>]

\* got: the result of the latest call when that was getAccessTokenForUser.
NoGot == [username |-> "none", st |-> "none", token |-> ""]

InitStore ==
    [rows |-> <<>>,
     last |-> [u \in Usernames |-> <<>>],
     nPersist |-> [u \in Usernames |-> 0],
     got |-> NoGot]

\* A mutant of saveUserTokens: a plain INSERT, without ON CONFLICT.
saveUserTokens_insert(rows, username, accessToken, refreshToken) ==
    Append(rows, TokenRow(username, accessToken, refreshToken))

\* INSERT INTO trakt_tokens (username, access_token, refresh_token) VALUES
\* ($1, $2, $3) ON CONFLICT (username) DO UPDATE SET access_token = $2,
\* refresh_token = $3
saveUserTokens(rows, username, accessToken, refreshToken) ==
    IF \E i \in 1..Len(rows) : rows[i].username = username
    THEN [i \in 1..Len(rows) |->
            IF rows[i].username = username
            THEN [rows[i] EXCEPT !.access_token = accessToken,
                                 !.refresh_token = refreshToken]
            ELSE rows[i]]
    ELSE Append(rows, TokenRow(username, accessToken, refreshToken))

\* SELECT access_token FROM trakt_tokens WHERE username = $1
SelectAccessToken(rows, username) ==
    [i \in {j \in 1..Len(rows) : rows[j].username = username} |->
        rows[i].access_token]

\* A mutant of getAccessTokenForUser: no row yields an undefined token.
getAccessTokenForUser_undefined(rows, username) ==
    LET result == SelectAccessToken(rows, username) IN
    IF DOMAIN result = {}
    THEN [st |-> "ok", token |-> ""]
    ELSE [st |-> "ok", token |-> result[CHOOSE i \in DOMAIN result :
                                   \A j \in DOMAIN result : i <= j]]

getAccessTokenForUser(rows, username) ==
    LET result == SelectAccessToken(rows, username) IN
    IF DOMAIN result = {}
    THEN [st |-> "No access token found", token |-> ""]
    ELSE [st |-> "ok", token |-> result[CHOOSE i \in DOMAIN result :
                                   \A j \in DOMAIN result : i <= j]]

\* The GET /callback requests that may be in progress at the same time.
MaxCallbacks == 2
CallbackIds == 1..MaxCallbacks

IdleCallback ==
    [pc |-> "idle", code |-> "", access_token |-> "", refresh_token |-> "",
     username |-> "", status |-> 0]

\* The authenticated call sites besides the synchronizer.
SiteKinds == {"watchlist", "recommendations"}

\* calls: the upstream calls issued, by access token; refreshes: the
\* refreshTraktToken calls; persisted: the token writes.
IdleSite ==
    [pc |-> "idle", kind |-> "watchlist", username |-> "u1", token |-> "",
     calls |-> <<>>, first401 |-> FALSE, refreshes |-> 0, persisted |-> 0,
     out |-> [st |-> "none", status |-> 0]]

\* Concurrent handleTraktHistory calls of one user, outside the cooldown.
MaxCallers == 2
Callers == 1..MaxCallers
RaceUser == "u1"
\* The stored pair is 0; every refresh upstream grants and every
\* authorization issues the next pair.
TokenIds == 0..(MaxCallers + MaxCallbacks)

IdleCaller ==
    [pc |-> "idle", access_token |-> 0, refresh_token |-> 0, data |-> 0,
     saw401 |-> FALSE, refreshed |-> FALSE, out |-> "none"]

\* cache: the Redis entry under the makePostRequest key of a refresh call,
\* which is a function of the refresh token in the body.
IdleRace ==
    [caller |-> [c \in Callers |-> IdleCaller],
     cache |-> [t \in TokenIds |-> <<>>]]

NoTxn ==
    [st |-> "none", username |-> "u1", batch |-> <<>>, idx |-> 0,
     sel |-> NoRef, ins |-> <<>>, upd |-> {}, err |-> NoErr,
     pre |-> <<>>, hv0 |-> 0, hv1 |-> 0]

\* An Annotate: parsedConfig.watchedEmoji (empty when not configured), the
\* arguments, the list returned and the table version it was read at.
IdleAnn ==
    [pc |-> "idle", user |-> "u1", type |-> "movies", emoji |-> <<>>,
     out |-> <<>>, ver |-> 0]

IdlePass ==
    [pc |-> "idle", user |-> "u1", type |-> "movies", nowAt |-> 0,
     access_token |-> 0, refresh_token |-> 0, attempt |-> 0,
     fetch |-> [b \in Batches |-> "idle"],
     history |-> [b \in Batches |-> <<>>],
     caught |-> NoErr, thrown |-> NoErr, out |-> <<>>,
     cool |-> FALSE, nRefresh |-> 0, calls |-> <<>>, persisted |-> FALSE,
     stamped |-> FALSE, annVer |-> 0, first401 |-> FALSE,
     second401 |-> FALSE]

dbType(type) ==
    IF type = "movies" THEN "movie" ELSE IF type = "series" THEN "show" ELSE type

\* new Date(column): a NULL column gives the epoch.
NewDate(col) == IF col = <<>> THEN Epoch ELSE col[1]

\* lastFetchedRow ? new Date(lastFetchedRow.last_fetched_at) : null
lastFetchedAt(row) ==
    IF row.present THEN <<NewDate(row.last_fetched_at)>> ELSE <<>>

ShouldFetch_always(lf, nowAt) == TRUE

\* A mutant of ShouldFetch: an elapsed time equal to the interval is still
\* inside the cooldown.
ShouldFetch_strict(lf, nowAt) ==
    lf = <<>> \/ nowAt - lf[1] > TRAKT_HISTORY_FETCH_INTERVAL

\* !lastFetchedAt || (now - lastFetchedAt) >= intervalInMs
ShouldFetch(lf, nowAt) ==
    lf = <<>> \/ nowAt - lf[1] >= TRAKT_HISTORY_FETCH_INTERVAL

\* SQL equality: NULL equals nothing.
SqlEq(a, b) == a # NULL /\ b # NULL /\ a = b

\* The row an INSERT adds for a history item.
RowOf(username, item) ==
    [username |-> username, imdb_id |-> item.imdb, tmdb_id |-> item.tmdb,
     type |-> item.kind, watched_at |-> item.last_watched_at,
     title |-> item.title]

\* A mutant of Updated: the UPDATE leaves the title as it was.
Updated_keepTitle(row, item) ==
    [row EXCEPT !.watched_at = item.last_watched_at,
                !.tmdb_id = item.tmdb, !.type = item.kind]

\* The row an UPDATE ... WHERE id leaves.
Updated(row, item) ==
    [row EXCEPT !.watched_at = item.last_watched_at, !.title = item.title,
                !.tmdb_id = item.tmdb, !.type = item.kind]

\* SELECT id FROM trakt_history WHERE username = $1 AND imdb_id = $2, as the
\* transaction sees it: the committed rows and its own inserts.
SelectIds(t, username, imdb) ==
    {[src |-> "table", i |-> i] : i \in
        {j \in 1..Len(trakt_history) :
            /\ trakt_history[j].username = username
            /\ SqlEq(trakt_history[j].imdb_id, imdb)}}
    \cup
    {[src |-> "own", i |-> i] : i \in
        {j \in 1..Len(t.ins) :
            /\ t.ins[j].username = username
            /\ SqlEq(t.ins[j].imdb_id, imdb)}}

\* historyResult.rows[0], or no row.
SelectResults(t, username, imdb) ==
    IF SelectIds(t, username, imdb) = {} THEN {NoRef}
    ELSE SelectIds(t, username, imdb)

\* A mutant of Committed: the commit leaves only the rows the transaction
\* wrote, as a save that replaced the stored history would.
Committed_replace(t) ==
    [k \in 1..Cardinality(t.upd) |->
        (CHOOSE f \in [1..Cardinality(t.upd) -> t.upd] :
            /\ \A a, b \in 1..Cardinality(t.upd) : a # b => f[a] # f[b]
            /\ \A a, b \in 1..Cardinality(t.upd) :
                   a < b => f[a].id < f[b].id)[k].row] \o t.ins

\* The table a COMMIT of transaction t leaves.
Committed(t) ==
    [i \in 1..Len(trakt_history) |->
        IF \E u \in t.upd : u.id = i
        THEN (CHOOSE u \in t.upd : u.id = i).row
        ELSE trakt_history[i]] \o t.ins

RolledBack_keep(t) == Committed(t)

\* The table a ROLLBACK of transaction t leaves.
RolledBack(t) == trakt_history

\* saveUserWatchedHistory up to its first query.
StartSave(username, history) ==
    IF Len(history) = 0
    THEN [NoTxn EXCEPT !.st = "skipped", !.username = username]
    ELSE [NoTxn EXCEPT !.st = "select", !.username = username,
                       !.batch = history, !.idx = 1,
                       !.pre = trakt_history, !.hv0 = hver]

\* The catch of fetchUserHistory: a 401 response becomes a new
\* Error('token_expired'), any other error is rethrown as it is.
fetchUserHistoryError(status) ==
    IF status = 401 THEN Err("token_expired", 0)
    ELSE Err("Request failed", status)

\* A mutant of OuterCatch: the stamp is written after a caught error.
OuterCatch_stamp(rec, e) ==
    [rec EXCEPT !.pc = "stamp", !.caught = e,
                !.fetch = [b \in Batches |-> "idle"]]

\* A mutant of OuterCatch: the error is thrown on to the caller.
OuterCatch_rethrow(rec, e) == [rec EXCEPT !.pc = "done", !.thrown = e]

\* The outer catch of handleTraktHistory: log, go on to Annotate.
OuterCatch(rec, e) ==
    [rec EXCEPT !.pc = "annotate", !.caught = e,
                !.fetch = [b \in Batches |-> "idle"]]

OnFetchError_rethrow(rec, e) ==
    IF rec.attempt = 1 /\ e.message = "token_expired"
    THEN [rec EXCEPT !.pc = "refresh", !.nRefresh = @ + 1,
                     !.fetch = [b \in Batches |-> "idle"]]
    ELSE [rec EXCEPT !.pc = "done", !.thrown = e]

\* A rejected history call: in the first try block token_expired starts
\* the refresh; any other error, and every error of the retry, reaches the
\* outer catch.
OnFetchError(rec, e) ==
    IF rec.attempt = 1 /\ e.message = "token_expired"
    THEN [rec EXCEPT !.pc = "refresh", !.nRefresh = @ + 1,
                     !.fetch = [b \in Batches |-> "idle"]]
    ELSE OuterCatch(rec, e)

updateTokensInDb_skip(username, newAccessToken, newRefreshToken) ==
    trakt_tokens

\* A mutant of updateTokensInDb: the refresh token is left as it was.
updateTokensInDb_accessOnly(username, newAccessToken, newRefreshToken) ==
    [trakt_tokens EXCEPT ![username] =
        IF @.present THEN [@ EXCEPT !.access_token = newAccessToken] ELSE @]

\* UPDATE trakt_tokens SET access_token, refresh_token WHERE username
updateTokensInDb(username, newAccessToken, newRefreshToken) ==
    [trakt_tokens EXCEPT ![username] =
        IF @.present
        THEN [@ EXCEPT !.access_token = newAccessToken,
                       !.refresh_token = newRefreshToken]
        ELSE @]

\* Promise.all over the two saves, as seen after one of them settled.
SaveSettled(rec, tx, b) ==
    IF rec.pc # "save" THEN rec
    ELSE IF tx[b].st = "rolledback" THEN OuterCatch(rec, tx[b].err)
    ELSE IF \A c \in Batches : tx[c].st \in {"committed", "skipped"}
         THEN [rec EXCEPT !.pc = "stamp"]
         ELSE rec

\* filteredResults.map(...) of handleTraktHistory with the marker emoji.
MarkWatchedWith(results, traktIds, emoji) ==
    [i \in 1..Len(results) |->
        IF results[i].id \in traktIds
        THEN [results[i] EXCEPT !.name =
                <<emoji, " ">> \o
                (IF results[i].name # <<>> THEN results[i].name
                 ELSE results[i].title)]
        ELSE results[i]]

\* The same under the default configuration.
MarkWatched(results, traktIds) ==
    MarkWatchedWith(results, traktIds, watchedEmoji)

\* A mutant of traktIdsOf: the query does not filter by type.
traktIdsOf_anyType(username, type) ==
    {trakt_history[j].imdb_id : j \in
        {k \in 1..Len(trakt_history) :
            /\ trakt_history[k].username = username
            /\ trakt_history[k].imdb_id # NULL}}

\* SELECT imdb_id FROM trakt_history WHERE username AND type AND NOT NULL
traktIdsOf(username, type) ==
    {trakt_history[j].imdb_id : j \in
        {k \in 1..Len(trakt_history) :
            /\ trakt_history[k].username = username
            /\ trakt_history[k].type = type
            /\ trakt_history[k].imdb_id # NULL}}

(***************************************************************************)
(* The catalog route for a Trakt list: the extra parameters are parsed,    *)
(* fetchListItems fetches (and with sortBy sorts) the list, the route      *)
(* takes its window, every item of the window is enriched on its own, and  *)
(* the metas are sent.                                                     *)
(***************************************************************************)
MaxLen == 3
MaxSkip == 2
limit == 2      \* the page size of the route (20), scaled to the lists

\* An element of a Trakt list: item.movie or item.show carries the title,
\* the year (0: none) and the ids; listed_at is the text of an instant.
ListItem(rank, listed_at, kind, title, year, imdb) ==
    [rank |-> rank, listed_at |-> listed_at, kind |-> kind, title |-> title,
     year |-> year, imdb |-> imdb]

i1 == ListItem(1, <<"9">>, "movie", <<"b">>, 2001, "tt1")
i2 == ListItem(2, <<"1", "0">>, "show", <<"A">>, 1999, "tt2")
i3 == ListItem(3, <<"1", "1">>, "movie", <<"a", "b">>, 2010, "tt3")
i4 == ListItem(4, <<"9">>, "show", <<"B">>, 0, "tt4")

ListItems == {i1, i2, i3, i4}

Lists == UNION {[1..n -> ListItems] : n \in 0..MaxLen}

\* The value of the sortBy extra parameter, as its pieces between
\* underscores.
SortValues ==
    {<<f, h>> : f \in {"rank", "title", "year", "votes"}, h \in {"asc", "desc"}}
        \cup {<<"listed", "at", h>> : h \in {"asc", "desc"}}
        \cup {<<"year">>, <<>>}

IdleCat ==
    [pc |-> "idle", list |-> <<>>, skip |-> 0, sortBy |-> <<>>,
     sortHow |-> "asc", allItems |-> <<>>, paginatedItems |-> <<>>,
     promises |-> <<>>, status |-> 0, metas |-> <<>>,
     params |-> [paged |-> FALSE, page |-> 0, limit |-> 0],
     order |-> <<>>]

\* const lastUnderscore = value.lastIndexOf('_'): without an underscore
\* sortBy stays null and sortHow 'asc'.
ParseSortBy(value) ==
    IF Len(value) < 2
    THEN [sortBy |-> <<>>, sortHow |-> "asc"]
    ELSE [sortBy |-> SubSeq(value, 1, Len(value) - 1),
          sortHow |-> value[Len(value)]]

\* if (sortBy): null and the empty string are falsy.
Truthy(sortBy) == sortBy # <<>> /\ sortBy # <<"">>

\* Math.floor(skip / limit) + 1
PageOf(skip) == (skip \div limit) + 1

\* Array.prototype.slice(start, end)
Slice(arr, start, end) == SubSeq(arr, start + 1, Min(end, Len(arr)))

\* What upstream returns for the list: every item without paging
\* parameters, one page with them.
ListResponse(list, paged, page) ==
    IF paged THEN Slice(list, (page - 1) * limit, page * limit) ELSE list

CodeUnits == <<"A", "B", "a", "b">>

CodeOf(c) == CHOOSE n \in 1..Len(CodeUnits) : CodeUnits[n] = c

toLowerCase_keep(str) == str

toLowerCase(str) ==
    [k \in 1..Len(str) |->
        IF str[k] = "A" THEN "a" ELSE IF str[k] = "B" THEN "b" ELSE str[k]]

\* x < y on strings: by code units, a proper prefix first.
RECURSIVE StrLess(_, _)
StrLess(x, y) ==
    IF y = <<>> THEN FALSE
    ELSE IF x = <<>> THEN TRUE
    ELSE IF Head(x) = Head(y) THEN StrLess(Tail(x), Tail(y))
    ELSE CodeOf(Head(x)) < CodeOf(Head(y))

\* new Date(text).getTime(), for the decimal text of an instant.
RECURSIVE DateOf(_)
DateOf(text) ==
    IF text = <<>> THEN 0
    ELSE DateOf(SubSeq(text, 1, Len(text) - 1)) * 10 + DigitOf(text[Len(text)])

\* valueA < valueB for the values the switch on sortBy picks; an unknown
\* field compares nothing.
ValueLess(sortBy, a, b) ==
    IF sortBy = <<"rank">> THEN a.rank < b.rank
    ELSE IF sortBy = <<"listed", "at">>
         THEN DateOf(a.listed_at) < DateOf(b.listed_at)
    ELSE IF sortBy = <<"title">>
         THEN StrLess(toLowerCase(a.title), toLowerCase(b.title))
    ELSE IF sortBy = <<"year">> THEN a.year < b.year
    ELSE FALSE

\* A mutant of compare: ascending, equal values compare greater.
compare_tiesGreater(a, b, sortBy, sortHow) ==
    IF sortHow = "desc"
    THEN IF ValueLess(sortBy, a, b) THEN 1
         ELSE IF ValueLess(sortBy, b, a) THEN -1 ELSE 0
    ELSE IF ValueLess(sortBy, a, b) THEN -1 ELSE 1

\* The comparator handed to data.sort.
compare(a, b, sortBy, sortHow) ==
    IF sortHow = "desc"
    THEN IF ValueLess(sortBy, a, b) THEN 1
         ELSE IF ValueLess(sortBy, b, a) THEN -1 ELSE 0
    ELSE IF ValueLess(sortBy, b, a) THEN 1
         ELSE IF ValueLess(sortBy, a, b) THEN -1 ELSE 0

\* Array.prototype.sort is stable: an element goes behind the elements
\* that do not compare greater than it.
RECURSIVE Insert(_, _, _, _)
Insert(sorted, x, sortBy, sortHow) ==
    IF sorted = <<>> THEN <<x>>
    ELSE IF compare(sorted[Len(sorted)], x, sortBy, sortHow) > 0
         THEN Append(Insert(SubSeq(sorted, 1, Len(sorted) - 1), x,
                            sortBy, sortHow),
                     sorted[Len(sorted)])
         ELSE Append(sorted, x)

RECURSIVE Sort(_, _, _)
Sort(data, sortBy, sortHow) ==
    IF data = <<>> THEN <<>>
    ELSE Insert(Sort(SubSeq(data, 1, Len(data) - 1), sortBy, sortHow),
                data[Len(data)], sortBy, sortHow)

\* The query parameters of the upstream request: none, or page and limit.
NoParams == [paged |-> FALSE, page |-> 0, limit |-> 0]

\* A mutant of ListParams: the paging parameters are always sent.
ListParams_always(page, sortBy) ==
    [paged |-> TRUE, page |-> page, limit |-> limit]

\* let params = {}; if (!sortBy) { params = { page, limit }; }
ListParams(page, sortBy) ==
    IF Truthy(sortBy) THEN NoParams
    ELSE [paged |-> TRUE, page |-> page, limit |-> limit]

\* fetchListItems: the data fetched with the parameters, sorted when sortBy
\* is given.
fetchListItems(list, page, sortBy, sortHow) ==
    LET params == ListParams(page, sortBy)
        data == ListResponse(list, params.paged, params.page)
    IN  IF Truthy(sortBy) THEN Sort(data, sortBy, sortHow) ELSE data

\* The meta the mapper returns for an item of a list.
MetaOf(item) ==
    [null |-> FALSE, id |-> item.imdb,
     type |-> (IF item.kind = "movie" THEN "movie" ELSE "series"),
     name |-> item.title]

\* What the catch of the mapper returns.
Null == [null |-> TRUE, id |-> "", type |-> "", name |-> <<>>]

\* A promise of the mapper: pending, or fulfilled with a value.
Pending == [settled |-> FALSE, value |-> Null]

Fulfilled(v) == [settled |-> TRUE, value |-> v]

\* Boolean(x) for a promise object: an object is truthy.
BooleanOfPromise(promise) == TRUE

\* paginatedItems.map(async ...).filter(Boolean): the filter runs over the
\* promises the map returned; the indices it keeps.
FilterBoolean(promises) ==
    {k \in 1..Len(promises) : BooleanOfPromise(promises[k])}

\* The prefix-preserving subsequence of arr at the indices of keep.
RECURSIVE Keep(_, _)
Keep(arr, keep) ==
    IF arr = <<>> THEN <<>>
    ELSE IF Len(arr) \in keep
         THEN Append(Keep(SubSeq(arr, 1, Len(arr) - 1), keep), arr[Len(arr)])
         ELSE Keep(SubSeq(arr, 1, Len(arr) - 1), keep)

(***************************************************************************)
(* Synchronizer actions.                                                   *)
(***************************************************************************)
\* handleTraktHistory is called: the interval is parsed and the SELECT of
\* last_fetched_at is sent.  (The type argument is first read by Annotate
\* and is drawn there.)
StartPass(p, u) ==
    /\ pass[p].pc = "idle"
    /\ IF p = 1 THEN TRUE ELSE pass[p - 1].pc = "returned"
    /\ pass' = [pass EXCEPT ![p] =
                  [IdlePass EXCEPT !.pc = "check", !.user = u]]
    /\ UNCHANGED <<now, cacheVars, cat, siteVars, trakt_tokens, trakt_history, hver,
                   issued, txn>>

\* The Check: inside the cooldown the pass goes straight to Annotate.
CheckReply(p) ==
    /\ pass[p].pc = "check"
    /\ LET row == trakt_tokens[pass[p].user]
           rec == [pass[p] EXCEPT
                     !.nowAt = now,
                     !.cool = /\ row.present
                              /\ row.last_fetched_at # <<>>
                              /\ now - row.last_fetched_at[1]
                                     < TRAKT_HISTORY_FETCH_INTERVAL]
       IN
       pass' = [pass EXCEPT ![p] =
                  IF ShouldFetch(lastFetchedAt(row), now)
                  THEN [rec EXCEPT !.pc = "tokens"]
                  ELSE [rec EXCEPT !.pc = "annotate"]]
    /\ UNCHANGED <<now, cacheVars, cat, siteVars, trakt_tokens, trakt_history, hver,
                   issued, txn>>

\* The stored pair is read and both history calls are issued with it.
TokensReply(p) ==
    /\ pass[p].pc = "tokens"
    /\ LET row == trakt_tokens[pass[p].user] IN
       pass' = [pass EXCEPT ![p] =
                  IF row.present
                  THEN [@ EXCEPT
                          !.pc = "fetch", !.attempt = 1,
                          !.access_token = row.access_token,
                          !.refresh_token = row.refresh_token,
                          !.fetch = [b \in Batches |-> "pending"],
                          !.calls = @ \o <<<<"movies", row.access_token>>,
                                           <<"shows", row.access_token>>>>]
                  ELSE [@ EXCEPT !.pc = "annotate"]]
    /\ UNCHANGED <<now, cacheVars, cat, siteVars, trakt_tokens, trakt_history, hver,
                   issued, txn>>

\* fetchUserHistory settles.  Promise.all rejects with the first rejection:
\* a first-attempt token_expired starts the refresh, anything else reaches
\* the outer catch.  When both calls returned, both saves are started.
FetchReply(p, b, o) ==
    /\ pass[p].pc = "fetch"
    /\ pass[p].fetch[b] = "pending"
    /\ LET rec == [pass[p] EXCEPT
                     !.fetch[b] = o.st, !.history[b] = o.history,
                     !.first401 = @ \/ (o.status = 401 /\ pass[p].attempt = 1),
                     !.second401 = @ \/ (o.status = 401 /\ pass[p].attempt = 2)]
           tx == [c \in Batches |-> StartSave(rec.user, rec.history[c])]
       IN
       IF o.st = "fail"
       THEN /\ pass' = [pass EXCEPT ![p] =
                  OnFetchError(rec, fetchUserHistoryError(o.status))]
            /\ UNCHANGED txn
       ELSE IF \A c \in Batches : rec.fetch[c] = "ok"
       THEN /\ pass' = [pass EXCEPT ![p] =
                  SaveSettled([rec EXCEPT !.pc = "save"], tx, b)]
            /\ txn' = [txn EXCEPT ![p] = tx]
       ELSE /\ pass' = [pass EXCEPT ![p] = rec]
            /\ UNCHANGED txn
    /\ UNCHANGED <<now, cacheVars, cat, siteVars, trakt_tokens, trakt_history, hver, issued>>

\* A mutant of RefreshReply: after a refused refresh the history calls are
\* issued again with the old access token.
RefreshReply_retry(p, ok) ==
    /\ pass[p].pc = "refresh"
    /\ IF ok
       THEN /\ issued' = issued + 1
            /\ pass' = [pass EXCEPT ![p].pc = "update",
                                    ![p].access_token = issued + 1,
                                    ![p].refresh_token = issued + 1]
       ELSE /\ pass' = [pass EXCEPT
                          ![p].pc = "fetch", ![p].attempt = 2,
                          ![p].caught = Err("Request failed", 400),
                          ![p].fetch = [b \in Batches |-> "pending"],
                          ![p].calls = @ \o
                              <<<<"movies", pass[p].access_token>>,
                                <<"shows", pass[p].access_token>>>>]
            /\ UNCHANGED issued
    /\ UNCHANGED <<now, cacheVars, cat, siteVars, trakt_tokens, trakt_history, hver, txn>>

\* refreshTraktToken settles: upstream issues a new pair, or refuses.
RefreshReply(p, ok) ==
    /\ pass[p].pc = "refresh"
    /\ IF ok
       THEN /\ issued' = issued + 1
            /\ pass' = [pass EXCEPT ![p].pc = "update",
                                    ![p].access_token = issued + 1,
                                    ![p].refresh_token = issued + 1]
       ELSE /\ pass' = [pass EXCEPT ![p] =
                          OuterCatch(@, Err("Request failed", 400))]
            /\ UNCHANGED issued
    /\ UNCHANGED <<now, cacheVars, cat, siteVars, trakt_tokens, trakt_history, hver, txn>>

\* updateTokensInDb settles, then both history calls are issued again with
\* the new access token.
UpdateReply(p) ==
    /\ pass[p].pc = "update"
    /\ trakt_tokens' = updateTokensInDb(pass[p].user, pass[p].access_token,
                                        pass[p].refresh_token)
    /\ pass' = [pass EXCEPT
                  ![p].pc = "fetch", ![p].attempt = 2,
                  ![p].fetch = [b \in Batches |-> "pending"],
                  ![p].persisted =
                        /\ trakt_tokens'[pass[p].user].access_token
                               = pass[p].access_token
                        /\ trakt_tokens'[pass[p].user].refresh_token
                               = pass[p].refresh_token,
                  ![p].calls = @ \o <<<<"movies", pass[p].access_token>>,
                                      <<"shows", pass[p].access_token>>>>]
    /\ UNCHANGED <<now, cacheVars, cat, siteVars, trakt_history, hver, issued, txn>>

\* UPDATE trakt_tokens SET last_fetched_at = now (the instant of the Check).
StampReply(p) ==
    /\ pass[p].pc = "stamp"
    /\ trakt_tokens' = [trakt_tokens EXCEPT ![pass[p].user] =
            IF @.present
            THEN [@ EXCEPT !.last_fetched_at = <<pass[p].nowAt>>]
            ELSE @]
    /\ pass' = [pass EXCEPT ![p].pc = "annotate", ![p].stamped = TRUE]
    /\ UNCHANGED <<now, cacheVars, cat, siteVars, trakt_history, hver, issued, txn>>

\* The Annotate query settles and the items are marked.
AnnotateReply(p, type) ==
    /\ pass[p].pc = "annotate"
    /\ pass' = [pass EXCEPT
                  ![p].pc = "done",
                  ![p].type = type,
                  ![p].annVer = hver,
                  ![p].out = MarkWatched(filteredResults,
                                 traktIdsOf(pass[p].user, dbType(type)))]
    /\ UNCHANGED <<now, cacheVars, cat, siteVars, trakt_tokens, trakt_history, hver,
                   issued, txn>>

\* The caller has taken the settled result of the pass; its next catalog
\* request may start a pass.
Return(p) ==
    /\ pass[p].pc = "done"
    /\ pass' = [pass EXCEPT ![p] = [IdlePass EXCEPT !.pc = "returned"]]
    /\ UNCHANGED <<now, cacheVars, cat, siteVars, trakt_tokens, trakt_history, hver,
                   issued, txn>>

\* A pool.query of the pass fails: outside the try block the pass rejects,
\* inside it the outer catch logs and the pass goes on to Annotate.
DbFail(p) ==
    /\ pass[p].pc \in {"check", "tokens", "update", "stamp", "annotate"}
    /\ pass' = [pass EXCEPT ![p] =
                  IF @.pc \in {"check", "annotate"}
                  THEN [@ EXCEPT !.pc = "done", !.thrown = DbError]
                  ELSE OuterCatch(@, DbError)]
    /\ UNCHANGED <<now, cacheVars, cat, siteVars, trakt_tokens, trakt_history, hver,
                   issued, txn>>

(***************************************************************************)
(* saveUserWatchedHistory: one transaction per call, READ COMMITTED.  The  *)
(* transaction sees the committed rows and its own writes; its writes      *)
(* reach the table at COMMIT.  An UPDATE of a row another open transaction *)
(* has updated waits for that transaction to end.                          *)
(***************************************************************************)
Open(t) == t.st \in {"select", "write", "commit"}

\* The SELECT for the current item returns.
TxSelectReply(p, b) ==
    /\ txn[p][b].st = "select"
    /\ \E r \in SelectResults(txn[p][b], txn[p][b].username,
                               txn[p][b].batch[txn[p][b].idx].imdb) :
           txn' = [txn EXCEPT ![p][b].st = "write", ![p][b].sel = r]
    /\ UNCHANGED <<now, cacheVars, cat, siteVars, trakt_tokens, trakt_history, hver,
                   issued, pass>>

\* The UPDATE or INSERT for the current item returns; after the last item
\* COMMIT is sent.
TxWriteReply(p, b) ==
    /\ txn[p][b].st = "write"
    /\ LET t == txn[p][b]
           item == t.batch[t.idx]
           nxt == IF t.idx = Len(t.batch)
                  THEN [t EXCEPT !.st = "commit", !.sel = NoRef]
                  ELSE [t EXCEPT !.st = "select", !.sel = NoRef,
                                 !.idx = @ + 1]
       IN
       IF t.sel.src = "table"
       THEN /\ \A q \in PassIds, c \in Batches :
                   (<<q, c>> # <<p, b>> /\ Open(txn[q][c]))
                       => \A u \in txn[q][c].upd : u.id # t.sel.i
            /\ txn' = [txn EXCEPT ![p][b] =
                  [nxt EXCEPT !.upd =
                      {u \in @ : u.id # t.sel.i} \cup
                      {[id |-> t.sel.i,
                        row |-> Updated(
                            IF \E u \in t.upd : u.id = t.sel.i
                            THEN (CHOOSE u \in t.upd : u.id = t.sel.i).row
                            ELSE trakt_history[t.sel.i], item)]}]]
       ELSE IF t.sel.src = "own"
       THEN txn' = [txn EXCEPT ![p][b] =
                  [nxt EXCEPT !.ins[t.sel.i] = Updated(@, item)]]
       ELSE txn' = [txn EXCEPT ![p][b] =
                  [nxt EXCEPT !.ins = Append(@, RowOf(t.username, item))]]
    /\ UNCHANGED <<now, cacheVars, cat, siteVars, trakt_tokens, trakt_history, hver,
                   issued, pass>>

\* COMMIT returns: the writes reach the table and the save resolves.
TxCommitReply(p, b) ==
    /\ txn[p][b].st = "commit"
    /\ trakt_history' = Committed(txn[p][b])
    /\ hver' = hver + 1
    /\ txn' = [txn EXCEPT ![p][b].st = "committed", ![p][b].hv1 = hver + 1]
    /\ pass' = [pass EXCEPT ![p] = SaveSettled(@, txn'[p], b)]
    /\ UNCHANGED <<now, cacheVars, cat, siteVars, trakt_tokens, issued>>

\* A query of the transaction fails: ROLLBACK, and the save rejects with
\* the error.
TxError(p, b) ==
    /\ Open(txn[p][b])
    /\ trakt_history' = RolledBack(txn[p][b])
    /\ txn' = [txn EXCEPT ![p][b].st = "rolledback", ![p][b].hv1 = hver,
                          ![p][b].err = DbError]
    /\ pass' = [pass EXCEPT ![p] = SaveSettled(@, txn'[p], b)]
    /\ UNCHANGED <<now, cacheVars, cat, siteVars, trakt_tokens, hver, issued>>

InitTables ==
    /\ trakt_tokens = [u \in Users |->
            IF u = "u1"
            THEN [present |-> TRUE, access_token |-> 0, refresh_token |-> 0,
                  last_fetched_at |-> <<>>]
            ELSE NoTokensRow]
    /\ trakt_history = <<>>
    /\ hver = 0
    /\ issued = 0
    /\ pass = [p \in PassIds |-> IdlePass]
    /\ txn = [p \in PassIds |-> [b \in Batches |-> NoTxn]]
    /\ cat = IdleCat
    /\ rf = IdleRace
    /\ ts = InitStore
    /\ site = IdleSite
    /\ dur = IdleDur
    /\ ivl = IdleIvl
    /\ ann = IdleAnn
    /\ cb = [c \in CallbackIds |-> IdleCallback]

InitSync == InitGateway /\ InitTables

NextSync ==
    \/ Tick
    \/ \E p \in PassIds, u \in Users : StartPass(p, u)
    \/ \E p \in PassIds : CheckReply(p)
    \/ \E p \in PassIds : TokensReply(p)
    \/ \E p \in PassIds, b \in Batches :
           \E o \in FetchOutcomes(b) : FetchReply(p, b, o)
    \/ \E p \in PassIds, ok \in BOOLEAN : RefreshReply(p, ok)
    \/ \E p \in PassIds : UpdateReply(p)
    \/ \E p \in PassIds : StampReply(p)
    \/ \E p \in PassIds, type \in {"movies", "series"} : AnnotateReply(p, type)
    \/ \E p \in PassIds : DbFail(p)
    \/ \E p \in PassIds : Return(p)
    \/ \E p \in PassIds, b \in Batches : TxSelectReply(p, b)
    \/ \E p \in PassIds, b \in Batches : TxWriteReply(p, b)
    \/ \E p \in PassIds, b \in Batches : TxCommitReply(p, b)
    \/ \E p \in PassIds, b \in Batches : TxError(p, b)

SpecSync == InitSync /\ [][NextSync]_vars

\* The gateway alone: the tables stay as created.
SpecGateway == InitSync /\ [][NextGateway]_vars

\* The gateway with its scheduling: a settled promise runs its reaction, a
\* queue with a free slot starts its next job, upstream answers, and the
\* client re-establishes a lost connection (the premise of recovery).  The
\* loss of the connection and the arrival of requests are not obliged.
GatewayStep ==
    \/ \E r \in Rid, ok \in BOOLEAN : RedisGetReply(r, ok)
    \/ \E q \in QueueNames : QueueStart(q)
    \/ \E r \in Rid, data \in ResponseData : UpstreamOk(r, data)
    \/ \E r \in Rid, status \in {0, 401, 500} : UpstreamFail(r, status)
    \/ \E r \in Rid, ok \in BOOLEAN : RedisSetReply(r, ok)

SpecGatewayFair ==
    /\ SpecGateway
    /\ WF_vars(GatewayStep)
    /\ WF_vars(Tick)
    /\ WF_vars(OnRedisReady)
    /\ WF_vars(OnRedisError)

(***************************************************************************)
(* C14: exchangeCodeForToken is never cached.  Every call that returns a   *)
(* token pair has issued its own upstream POST, and the Response Cache     *)
(* never holds an entry under the key of an exchange call.                 *)
(***************************************************************************)
C14_ExchangeNeverCached ==
    /\ redisStore[exchangeCodeForToken("c1").key] = NoEntry
    /\ \A r \in Rid :
           (/\ req[r].key = exchangeCodeForToken("c1").key
            /\ req[r].pc = "done"
            /\ req[r].out.st = "ok") => req[r].calls = 1

(***************************************************************************)
(* C13: in every queue (GET, POST, TMDB) the jobs in flight never exceed   *)
(* the concurrency ceiling and the jobs started in one unit of time never  *)
(* exceed the rate ceiling; a job is submitted at the tail, waits while    *)
(* a ceiling is reached, and the job started is always the oldest one      *)
(* waiting.                                                                *)
(***************************************************************************)
InFlightUpstream(q) == {r \in Rid : req[r].kind = q /\ req[r].pc = "upstream"}

Starts(q, r) == r \notin running[q] /\ r \in running'[q]

Submits(q, r) ==
    /\ req[r].pc \in {"idle", "awaitGet"}
    /\ req'[r].pc = "queued"
    /\ req'[r].kind = q

C13_WithinCeilings ==
    \A q \in QueueNames :
        /\ Cardinality(running[q]) <= maxConcurrent
        /\ Cardinality(InFlightUpstream(q)) <= maxConcurrent
        /\ InFlightUpstream(q) \subseteq running[q]
        /\ started[q] <= rateCeiling

C13_CeilingsAndFifo ==
    /\ []C13_WithinCeilings
    /\ [][\A q \in QueueNames, r \in Rid :
             /\ Submits(q, r) => queue'[q] = Append(queue[q], r)
             /\ Starts(q, r) =>
                    /\ Cardinality(running[q]) < maxConcurrent
                    /\ started[q] < rateCeiling
                    /\ queue[q] # <<>>
                    /\ r = Head(queue[q])
                    /\ queue'[q] = Tail(queue[q])
                    /\ req'[r].pc = "upstream"
             /\ (req[r].pc = "queued" /\ req'[r].pc # "queued") =>
                    Starts(req[r].kind, r)]_vars

C13_Witness ==
    \E q \in QueueNames :
        /\ Len(queue[q]) >= 1
        /\ Cardinality(InFlightUpstream(q)) = maxConcurrent
        /\ started[q] = rateCeiling

(***************************************************************************)
(* C12: the cache recovers by itself.  From every state in which the       *)
(* cache is marked unavailable, when the connection to the store is        *)
(* established and stays so, the mark is eventually cleared and cache      *)
(* operations are issued again.                                            *)
(***************************************************************************)
C12_AutoRecovers ==
    [](redisUnavailable => <>(~redisUnavailable \/ ~redisUp))

(***************************************************************************)
(* Properties of the synchronizer.                                         *)
(***************************************************************************)
InFlight(p) == pass[p].pc \notin {"idle", "returned"}

\* Every item of the histories the pass fetched has its row in the table.
Upserted(p) ==
    \A b \in Batches : \A i \in 1..Len(pass[p].history[b]) :
        \E j \in 1..Len(trakt_history) :
            trakt_history[j] = RowOf(pass[p].user, pass[p].history[b][i])

\* The marking Annotate owes for the rows now in the table.
Marked(item, username, type) ==
    \E j \in 1..Len(trakt_history) :
        /\ trakt_history[j].username = username
        /\ trakt_history[j].type = (IF type = "movies" THEN "movie" ELSE "show")
        /\ trakt_history[j].imdb_id = item.id

(***************************************************************************)
(* C2: in a pass whose first history attempt is answered 401, exactly one  *)
(* refresh is issued; once the refresh has succeeded the new pair is in    *)
(* trakt_tokens before the retry, the movies call and the shows call are   *)
(* each issued once more, with the new access token; and when the retried  *)
(* calls return and the saves commit, the pass ends with the history       *)
(* upserted and last_fetched_at stamped.                                   *)
(***************************************************************************)
C2_RefreshOnceThenRetry ==
    \A p \in PassIds : InFlight(p) =>
        /\ pass[p].nRefresh = (IF pass[p].first401 THEN 1 ELSE 0)
        /\ pass[p].attempt = 2 =>
            /\ pass[p].first401
            /\ pass[p].persisted
            /\ Len(pass[p].calls) = 4
            /\ pass[p].calls[3] = <<"movies", pass[p].access_token>>
            /\ pass[p].calls[4] = <<"shows", pass[p].access_token>>
            /\ pass[p].calls[1][2] # pass[p].access_token
            /\ pass[p].calls[2][2] # pass[p].access_token
        /\ (/\ pass[p].attempt = 2
            /\ \A b \in Batches : pass[p].fetch[b] = "ok"
            /\ pass[p].pc \in {"annotate", "done"}
            /\ pass[p].caught = NoErr) =>
                /\ pass[p].stamped
                /\ trakt_tokens[pass[p].user].last_fetched_at
                       = <<pass[p].nowAt>>
                /\ Upserted(p)

C2_Witness ==
    \E p \in PassIds :
        /\ pass[p].first401
        /\ pass[p].attempt = 2
        /\ pass[p].pc = "done"
        /\ pass[p].stamped
        /\ pass[p].caught = NoErr
        /\ pass[p].history["shows"] = <<s1>>
        /\ Len(trakt_history) >= 3

(***************************************************************************)
(* C3 (as the code has it): when the retried call is also answered 401,   *)
(* no further refresh and no further history call is issued; the failure  *)
(* reaches the outer catch of handleTraktHistory as Error token_expired   *)
(* (not the 401 response), is logged there and goes no further: the pass  *)
(* saves nothing, does not stamp last_fetched_at, runs Annotate and        *)
(* rejects only if the Annotate query itself fails.                       *)
(***************************************************************************)
C3_SecondFailureCaught ==
    \A p \in PassIds : (InFlight(p) /\ pass[p].second401) =>
        /\ pass[p].nRefresh = 1
        /\ Len(pass[p].calls) = 4
        /\ pass[p].pc \in {"annotate", "done"}
        /\ pass[p].caught = Err("token_expired", 0)
        /\ pass[p].thrown \in {NoErr, DbError}
        /\ ~pass[p].stamped
        /\ \A b \in Batches : txn[p][b].st = "none"

C3_Witness ==
    \E p \in PassIds :
        /\ pass[p].second401
        /\ pass[p].pc = "done"
        /\ pass[p].thrown = NoErr
        /\ Len(pass[p].out) = Len(filteredResults)

(***************************************************************************)
(* C3 (as stated): when the retried call is also answered 401, the 401    *)
(* error surfaces unmodified to the caller: the pass ends rejected with   *)
(* the error that carries the 401 response.                               *)
(***************************************************************************)
C3_SecondFailureSurfaces ==
    \A p \in PassIds : (pass[p].second401 /\ pass[p].pc = "done") =>
        /\ pass[p].thrown.status = 401
        /\ pass[p].out = <<>>

(***************************************************************************)
(* C4: a pass that finds last_fetched_at inside the cooldown interval     *)
(* issues no history call, no refresh, starts no save and does not stamp; *)
(* it goes to Annotate, whose result marks exactly the items that have a  *)
(* persisted row of the user and type.                                    *)
(***************************************************************************)
C4_CooldownSkipsFetch ==
    \A p \in PassIds : (InFlight(p) /\ pass[p].cool) =>
        /\ pass[p].calls = <<>>
        /\ pass[p].nRefresh = 0
        /\ ~pass[p].stamped
        /\ \A b \in Batches : txn[p][b].st = "none"
        /\ pass[p].pc \in {"annotate", "done"}
        /\ (pass[p].pc = "done" /\ pass[p].thrown = NoErr
                /\ pass[p].annVer = hver) =>
            /\ Len(pass[p].out) = Len(filteredResults)
            /\ \A i \in 1..Len(filteredResults) :
                LET item == filteredResults[i]
                    shown == IF item.name # <<>> THEN item.name ELSE item.title
                IN
                pass[p].out[i] =
                    IF Marked(item, pass[p].user, pass[p].type)
                    THEN [item EXCEPT !.name = <<watchedEmoji, " ">> \o shown]
                    ELSE item

C4_Witness ==
    \E p \in PassIds :
        /\ pass[p].cool
        /\ pass[p].pc = "done"
        /\ pass[p].type = "movies"
        /\ pass[p].annVer = hver
        /\ Len(trakt_history) >= 3
        /\ pass[p].out[1].name = <<watchedEmoji, " ", "A">>
        /\ pass[p].out[2].name = <<>>

(***************************************************************************)
(* C5: saving the same batch for the same user a second time, on the      *)
(* table the first save left, leaves the table as it was: the same rows   *)
(* with the same content, also for items whose imdb id is null.           *)
(***************************************************************************)
C5_SaveTwiceEqualsOnce ==
    \A p, q \in PassIds : \A b \in Batches :
        (/\ txn[p][b].st = "committed"
         /\ txn[q][b].st = "committed"
         /\ txn[q][b].username = txn[p][b].username
         /\ txn[q][b].batch = txn[p][b].batch
         /\ txn[q][b].hv0 = txn[p][b].hv1
         /\ txn[q][b].hv1 = txn[q][b].hv0 + 1
         /\ hver = txn[q][b].hv1)
            => trakt_history = txn[q][b].pre

(***************************************************************************)
(* C6: the table never holds two rows with the same username and the same *)
(* (non-null) imdb_id, whatever the interleaving of the save transactions. *)
(***************************************************************************)
C6_OneRowPerUserImdb ==
    \A i, j \in 1..Len(trakt_history) :
        (/\ i # j
         /\ trakt_history[i].username = trakt_history[j].username
         /\ trakt_history[i].imdb_id # NULL)
            => trakt_history[i].imdb_id # trakt_history[j].imdb_id

(***************************************************************************)
(* C7: when a query of a save fails, at whichever row of the batch, the   *)
(* transaction is rolled back: the table is what it was when the save was *)
(* called (as long as no other transaction has committed since), the save *)
(* rejects with the error, which reaches the outer catch of the pass, and *)
(* the pass does not stamp last_fetched_at.                               *)
(***************************************************************************)
C7_FailedBatchRolledBack ==
    \A p \in PassIds : \A b \in Batches :
        txn[p][b].st = "rolledback" =>
            /\ txn[p][b].err # NoErr
            /\ hver = txn[p][b].hv0 => trakt_history = txn[p][b].pre
            /\ InFlight(p) =>
                /\ pass[p].pc \in {"annotate", "done"}
                /\ pass[p].caught = txn[p][b].err
                /\ ~pass[p].stamped
                /\ trakt_tokens[pass[p].user].last_fetched_at
                       # <<pass[p].nowAt>>

C7_Witness ==
    \E p \in PassIds :
        /\ txn[p]["movies"].st = "rolledback"
        /\ txn[p]["movies"].idx = 2
        /\ Len(txn[p]["movies"].ins) >= 1
        /\ hver = txn[p]["movies"].hv0
        /\ pass[p].pc = "done"
        /\ pass[p].caught = DbError

(***************************************************************************)
(* C19: last_fetched_at is written only by a pass whose history calls      *)
(* both returned and whose saves both committed, none of its steps having  *)
(* thrown to the outer catch; it is written with the instant of that       *)
(* pass's Check.  A pass that caught an error of Fetch, refresh or Upsert  *)
(* has not stamped, and leaves the row such that a Check made at any later *)
(* instant decides to fetch.                                               *)
(***************************************************************************)
Stamps(p, u) ==
    /\ pass[p].pc = "stamp"
    /\ pass[p].user = u
    /\ pass'[p].stamped
    /\ pass[p].caught = NoErr
    /\ \A b \in Batches :
           /\ pass[p].fetch[b] = "ok"
           /\ txn[p][b].st = IF pass[p].history[b] = <<>> THEN "skipped"
                             ELSE "committed"
    /\ trakt_tokens'[u].last_fetched_at = <<pass[p].nowAt>>

C19_FailedPassKeepsStamp ==
    \A p \in PassIds :
        (InFlight(p) /\ pass[p].caught # NoErr) =>
            /\ ~pass[p].stamped
            /\ pass[p].pc \in {"annotate", "done"}
            /\ \A t \in now..MaxTime :
                   ShouldFetch(lastFetchedAt(trakt_tokens[pass[p].user]), t)

C19_StampOnlyAfterSuccess ==
    /\ []C19_FailedPassKeepsStamp
    /\ [][\A u \in Users :
             trakt_tokens'[u].last_fetched_at # trakt_tokens[u].last_fetched_at
                 => \E p \in PassIds : Stamps(p, u)]_vars

C19_Witness ==
    /\ txn[1]["shows"].st = "rolledback"
    /\ pass[1].pc = "returned"
    /\ pass[2].pc = "fetch"
    /\ pass[2].user = "u1"
    /\ pass[2].nowAt = 0
    /\ txn[1]["shows"].username = "u1"
    /\ trakt_tokens["u1"].last_fetched_at = <<>>

(***************************************************************************)
(* C20: a failure of Fetch, refresh, Upsert or Stamp never fails           *)
(* handleTraktHistory.  The error is caught, the pass goes on to the       *)
(* Annotate query, and when that query has answered the caller receives    *)
(* the whole item list, marked from the rows persisted at that moment;     *)
(* the only error a pass ever throws is that of its own Check or Annotate  *)
(* query.                                                                  *)
(***************************************************************************)
AnnotatedList(p) ==
    /\ Len(pass[p].out) = Len(filteredResults)
    /\ \A i \in 1..Len(filteredResults) :
           LET item == filteredResults[i]
               shown == IF item.name # <<>> THEN item.name ELSE item.title
           IN
           pass[p].out[i].id = item.id
           /\ (pass[p].annVer = hver =>
                  pass[p].out[i] =
                      IF Marked(item, pass[p].user, pass[p].type)
                      THEN [item EXCEPT !.name = <<watchedEmoji, " ">> \o shown]
                      ELSE item)

C20_SyncFailureNeverFailsCall ==
    \A p \in PassIds :
        /\ pass[p].thrown \in {NoErr, DbError}
        /\ (InFlight(p) /\ pass[p].caught # NoErr) =>
               /\ pass[p].pc \in {"annotate", "done"}
               /\ (pass[p].pc = "done" /\ pass[p].thrown = NoErr) =>
                      AnnotatedList(p)

C20_Witness ==
    \E p \in PassIds :
        /\ pass[p].pc = "done"
        /\ pass[p].caught = Err("Request failed", 500)
        /\ pass[p].thrown = NoErr
        /\ pass[p].type = "movies"
        /\ pass[p].annVer = hver
        /\ pass[p].out[1].name = <<watchedEmoji, " ", "A">>

(***************************************************************************)
(* C8: the movies batch and the shows batch of one pass are saved in one  *)
(* transaction: when the save of either batch fails, no row of the other  *)
(* batch is persisted.                                                    *)
(***************************************************************************)
C8_BothBatchesOneTransaction ==
    \A p \in PassIds : \A b, c \in Batches :
        txn[p][b].st = "rolledback" => txn[p][c].st # "committed"

(***************************************************************************)
(* The token-expiry branch of handleTraktHistory under concurrent calls    *)
(* for one user: read the stored pair, fetch, on 401 refreshTraktToken     *)
(* (makePostRequest: cache get, queue, upstream POST, cache set), then     *)
(* updateTokensInDb and one retry.                                         *)
(***************************************************************************)
\* Upstream accepts the access token of the pair it issued last; the
\* access token of the stored pair 0 has expired.
AccessValid(t) == t = issued /\ issued > 0

RefreshJobs == {c \in Callers : rf.caller[c].pc \in {"refreshUp", "refreshSet"}}

raceFrame ==
    UNCHANGED <<now, cacheVars, cat, trakt_history, hver, pass, txn, ts, site,
                confVars, flowVars>>

RaceStart(c) ==
    /\ rf.caller[c].pc = "idle"
    /\ rf' = [rf EXCEPT !.caller[c].pc = "tokens"]
    /\ raceFrame
    /\ UNCHANGED <<trakt_tokens, issued>>

\* SELECT access_token, refresh_token: both history calls go out with it.
RaceTokensReply(c) ==
    /\ rf.caller[c].pc = "tokens"
    /\ rf' = [rf EXCEPT
                !.caller[c].pc = "fetch",
                !.caller[c].access_token = trakt_tokens[RaceUser].access_token,
                !.caller[c].refresh_token = trakt_tokens[RaceUser].refresh_token]
    /\ raceFrame
    /\ UNCHANGED <<trakt_tokens, issued>>

\* The history calls settle: 200, or 401 (token_expired).  The first 401
\* starts refreshTraktToken, whose makePostRequest looks the key up first;
\* a 401 of the retry reaches the outer catch.
RaceFetchReply(c) ==
    /\ rf.caller[c].pc = "fetch"
    /\ rf' = [rf EXCEPT !.caller[c] =
                IF AccessValid(@.access_token)
                THEN [@ EXCEPT !.pc = "done", !.out = "ok"]
                ELSE IF ~@.saw401
                THEN [@ EXCEPT !.pc = "refreshGet", !.saw401 = TRUE]
                ELSE [@ EXCEPT !.pc = "done", !.out = "token_expired"]]
    /\ raceFrame
    /\ UNCHANGED <<trakt_tokens, issued>>

\* The cache get of the refresh settles: a hit resolves with the cached
\* pair, a miss submits the POST to the queue.
RaceRefreshGetReply(c) ==
    /\ rf.caller[c].pc = "refreshGet"
    /\ LET cachedData == rf.cache[rf.caller[c].refresh_token] IN
       rf' = [rf EXCEPT !.caller[c] =
                IF cachedData # <<>>
                THEN [@ EXCEPT !.pc = "update", !.refreshed = TRUE,
                               !.access_token = cachedData[1],
                               !.refresh_token = cachedData[1]]
                ELSE [@ EXCEPT !.pc = "queued"]]
    /\ raceFrame
    /\ UNCHANGED <<trakt_tokens, issued>>

\* The POST queue starts the job when it has a free slot.
RaceRefreshStart(c) ==
    /\ rf.caller[c].pc = "queued"
    /\ Cardinality(RefreshJobs) < maxConcurrent
    /\ rf' = [rf EXCEPT !.caller[c].pc = "refreshUp"]
    /\ raceFrame
    /\ UNCHANGED <<trakt_tokens, issued>>

\* Upstream answers the refresh: it issues the next pair, which replaces
\* every earlier one, or refuses.  Whether it accepts a refresh token it
\* has already exchanged is its choice.
RaceRefreshReply(c, ok) ==
    /\ rf.caller[c].pc = "refreshUp"
    /\ IF ok
       THEN /\ issued' = issued + 1
            /\ rf' = [rf EXCEPT !.caller[c].pc = "refreshSet",
                                !.caller[c].data = issued + 1]
       ELSE /\ rf' = [rf EXCEPT !.caller[c].pc = "done",
                                !.caller[c].out = "refresh_failed"]
            /\ UNCHANGED issued
    /\ raceFrame
    /\ UNCHANGED trakt_tokens

\* The cache set of the refresh settles; refreshTraktToken returns the pair.
RaceRefreshSetReply(c) ==
    /\ rf.caller[c].pc = "refreshSet"
    /\ rf' = [rf EXCEPT
                !.cache[rf.caller[c].refresh_token] = <<rf.caller[c].data>>,
                !.caller[c].pc = "update",
                !.caller[c].refreshed = TRUE,
                !.caller[c].access_token = rf.caller[c].data,
                !.caller[c].refresh_token = rf.caller[c].data]
    /\ raceFrame
    /\ UNCHANGED <<trakt_tokens, issued>>

\* updateTokensInDb settles; the history calls are issued again.
RaceUpdateReply(c) ==
    /\ rf.caller[c].pc = "update"
    /\ trakt_tokens' = updateTokensInDb(RaceUser, rf.caller[c].access_token,
                                        rf.caller[c].refresh_token)
    /\ rf' = [rf EXCEPT !.caller[c].pc = "fetch"]
    /\ raceFrame
    /\ UNCHANGED issued

NextRace ==
    \/ \E c \in Callers : RaceStart(c)
    \/ \E c \in Callers : RaceTokensReply(c)
    \/ \E c \in Callers : RaceFetchReply(c)
    \/ \E c \in Callers : RaceRefreshGetReply(c)
    \/ \E c \in Callers : RaceRefreshStart(c)
    \/ \E c \in Callers, ok \in BOOLEAN : RaceRefreshReply(c, ok)
    \/ \E c \in Callers : RaceRefreshSetReply(c)
    \/ \E c \in Callers : RaceUpdateReply(c)

SpecRace == InitSync /\ [][NextRace]_vars

(***************************************************************************)
(* C15: token refresh is single-flight per username.  Among concurrent     *)
(* calls for one user that each got a 401, at most one upstream refresh    *)
(* call is in flight, every one of them that obtained a pair obtained the  *)
(* same pair, and none ends holding an access token that a later refresh   *)
(* has replaced.                                                           *)
(***************************************************************************)
C15_SingleFlightRefresh ==
    /\ Cardinality({c \in Callers : rf.caller[c].pc = "refreshUp"}) <= 1
    /\ \A c, d \in Callers :
           (rf.caller[c].refreshed /\ rf.caller[d].refreshed) =>
               rf.caller[c].access_token = rf.caller[d].access_token
    /\ \A c \in Callers :
           (rf.caller[c].pc = "done" /\ rf.caller[c].refreshed) =>
               AccessValid(rf.caller[c].access_token)

(***************************************************************************)
(* The credential records: the /callback route persists the pair it got    *)
(* for the code, handleTraktHistory stamps last_fetched_at, and the        *)
(* authenticated call sites read the access token.                         *)
(***************************************************************************)
storeFrame ==
    UNCHANGED <<now, cacheVars, cat, syncVars, rf, site, confVars,
                flowVars>>

\* GET /callback after the code was exchanged and the profile fetched: a
\* missing token or username answers 500 before anything is stored;
\* otherwise saveUserTokens runs.
Callback(username, access_token, refresh_token) ==
    /\ username \in Usernames
    /\ ts.nPersist[username] < MaxPersist
    /\ access_token # ""
    /\ refresh_token # ""
    /\ ts' = [ts EXCEPT
                !.rows = saveUserTokens(ts.rows, username, access_token,
                                        refresh_token),
                !.last[username] = <<access_token, refresh_token>>,
                !.nPersist[username] = @ + 1,
                !.got = NoGot]
    /\ storeFrame

\* The same route when a token is missing: 500, nothing stored.
CallbackRejects(username, access_token, refresh_token) ==
    /\ access_token = "" \/ refresh_token = ""
    /\ ts' = [ts EXCEPT !.got = NoGot]
    /\ ts' # ts
    /\ storeFrame

\* UPDATE trakt_tokens SET last_fetched_at = $1 WHERE username = $2
StampTokens(username, t) ==
    /\ \E i \in 1..Len(ts.rows) :
           /\ ts.rows[i].username = username
           /\ ts.rows[i].last_fetched_at # <<t>>
    /\ ts' = [ts EXCEPT
                !.rows = [i \in 1..Len(ts.rows) |->
                            IF ts.rows[i].username = username
                            THEN [ts.rows[i] EXCEPT !.last_fetched_at = <<t>>]
                            ELSE ts.rows[i]],
                !.got = NoGot]
    /\ storeFrame

\* getAccessTokenForUser(username) settles.
GetAccessToken(username) ==
    /\ LET r == getAccessTokenForUser(ts.rows, username) IN
       ts' = [ts EXCEPT !.got = [username |-> username, st |-> r.st,
                                 token |-> r.token]]
    /\ ts' # ts
    /\ storeFrame

NextStore ==
    \/ \E u \in Usernames, a, r \in TokenTexts : Callback(u, a, r)
    \/ \E u \in Usernames, a, r \in TokenTexts : CallbackRejects(u, a, r)
    \/ \E u \in Usernames, t \in 0..MaxTime : StampTokens(u, t)
    \/ \E u \in Usernames \cup {"u3"} : GetAccessToken(u)

SpecStore == InitSync /\ [][NextStore]_vars

RowsOf(rows, username) == {i \in 1..Len(rows) : rows[i].username = username}

(***************************************************************************)
(* C16: saveUserTokens is an idempotent upsert keyed by username.  After   *)
(* any sequence of calls every username that was persisted has exactly     *)
(* one record, holding the tokens of its last call, and no other username  *)
(* has one; from every reachable table, persisting a triple twice gives    *)
(* the table that persisting it once gives, and one persist changes        *)
(* neither last_fetched_at of the record nor any field of another user's   *)
(* record.                                                                 *)
(***************************************************************************)
C16_IdempotentUpsert ==
    /\ \A u \in Usernames :
           IF ts.last[u] = <<>>
           THEN RowsOf(ts.rows, u) = {}
           ELSE /\ Cardinality(RowsOf(ts.rows, u)) = 1
                /\ \A i \in RowsOf(ts.rows, u) :
                       /\ ts.rows[i].access_token = ts.last[u][1]
                       /\ ts.rows[i].refresh_token = ts.last[u][2]
    /\ \A u \in Usernames, a, r \in TokenTexts \ {""} :
           LET once == saveUserTokens(ts.rows, u, a, r) IN
           /\ saveUserTokens(once, u, a, r) = once
           /\ Cardinality(RowsOf(once, u)) = 1
           /\ \A i \in 1..Len(ts.rows) :
                  /\ once[i].last_fetched_at = ts.rows[i].last_fetched_at
                  /\ ts.rows[i].username # u => once[i] = ts.rows[i]
           /\ Len(once) = Len(ts.rows) + (IF RowsOf(ts.rows, u) = {} THEN 1 ELSE 0)

C16_Witness ==
    /\ ts.nPersist["u1"] = 2
    /\ ts.last["u1"] = <<"tB", "tA">>
    /\ Len(ts.rows) = 2
    /\ \E i \in RowsOf(ts.rows, "u1") :
           /\ ts.rows[i].access_token = "tB"
           /\ ts.rows[i].last_fetched_at = <<1>>
    /\ \E i \in RowsOf(ts.rows, "u2") : ts.rows[i].last_fetched_at = <<0>>

(***************************************************************************)
(* C17: getAccessTokenForUser returns the stored access token when the     *)
(* username has a credential record and fails with a not-found error when  *)
(* it has none; the token it returns is never empty, and the call leaves   *)
(* the table as it was.                                                    *)
(***************************************************************************)
C17_Returned ==
    /\ ts.got.st # "none" =>
           IF RowsOf(ts.rows, ts.got.username) = {}
           THEN ts.got.st = "No access token found"
           ELSE /\ ts.got.st = "ok"
                /\ ts.got.token # ""
                /\ \A i \in RowsOf(ts.rows, ts.got.username) :
                       ts.got.token = ts.rows[i].access_token
    /\ \A u \in Usernames \cup {"u3"} :
           LET r == getAccessTokenForUser(ts.rows, u) IN
           r.st = "ok" => r.token # ""

siteFrame ==
    UNCHANGED <<now, cacheVars, cat, syncVars, rf, ts, confVars, flowVars>>

SiteCall(kind, username) ==
    /\ site.pc \in {"idle", "done"}
    /\ site' = [IdleSite EXCEPT !.pc = "token", !.kind = kind,
                                !.username = username]
    /\ siteFrame

\* getAccessTokenForUser settles: the fetch goes out with the token, or
\* the not-found error is thrown on.
SiteTokenReply ==
    /\ site.pc = "token"
    /\ LET r == getAccessTokenForUser(ts.rows, site.username) IN
       site' = IF r.st = "ok"
               THEN [site EXCEPT !.pc = "fetch", !.token = r.token,
                                 !.calls = Append(@, r.token)]
               ELSE [site EXCEPT !.pc = "done",
                                 !.out = [st |-> r.st, status |-> 0]]
    /\ siteFrame

\* fetchData settles: the data is returned, or the failure of the request
\* (the 401 included) is thrown on to the caller.
SiteFetchReply(status) ==
    /\ site.pc = "fetch"
    /\ site' = [site EXCEPT
                  !.pc = "done",
                  !.first401 = (status = 401),
                  !.out = IF status = 200
                          THEN [st |-> "ok", status |-> 200]
                          ELSE [st |-> "Request failed", status |-> status]]
    /\ siteFrame

NextSites ==
    \/ \E a, r \in TokenTexts : Callback("u1", a, r)
    \/ \E k \in SiteKinds, u \in Usernames : SiteCall(k, u)
    \/ SiteTokenReply
    \/ \E status \in {200, 401, 500} : SiteFetchReply(status)

SpecSites == InitSync /\ [][NextSites]_vars

(***************************************************************************)
(* C18: every authenticated call site follows the token-expiry protocol.   *)
(* When the watchlist or recommendations fetch gets 401, the token is      *)
(* refreshed once, the new pair is persisted, and the call is retried      *)
(* exactly once with the new token.                                        *)
(***************************************************************************)
C18_CallSitesRefreshOn401 ==
    (site.pc = "done" /\ site.first401) =>
        /\ site.refreshes = 1
        /\ site.persisted = 1
        /\ Len(site.calls) = 2
        /\ site.calls[2] # site.calls[1]

(***************************************************************************)
(* Catalog actions.                                                        *)
(***************************************************************************)
\* A catalog request for a list arrives: extra is parsed and fetchListItems
\* is called (without paging parameters when sortBy is given).
CatalogRequest ==
    /\ cat.pc = "idle"
    /\ \E list \in Lists, value \in SortValues, skip \in 0..MaxSkip :
           cat' = [IdleCat EXCEPT !.pc = "fetch", !.list = list,
                                  !.skip = skip,
                                  !.sortBy = ParseSortBy(value).sortBy,
                                  !.sortHow = ParseSortBy(value).sortHow]
    /\ UNCHANGED <<now, cacheVars, syncVars, siteVars>>

\* A mutant of Respond: the metas are collected as the tasks complete.
Respond_asCompleted(c) ==
    IF \A k \in FilterBoolean(c.promises) : c.promises[k].settled
    THEN [c EXCEPT !.pc = "sent", !.status = 200,
                   !.metas = [k \in 1..Len(c.order) |->
                                 c.promises[c.order[k]].value]]
    ELSE c

\* res.json({ metas }) once every promise handed to Promise.all is settled.
Respond(c) ==
    IF \A k \in FilterBoolean(c.promises) : c.promises[k].settled
    THEN [c EXCEPT !.pc = "sent", !.status = 200,
                   !.metas = Keep([k \in 1..Len(c.promises) |->
                                       c.promises[k].value],
                                  FilterBoolean(c.promises))]
    ELSE c

\* fetchListItems settles: the window is cut and the mapper is started on
\* each of its items; a failure is answered with status 500.
ListReply(ok) ==
    /\ cat.pc = "fetch"
    /\ IF ok
       THEN LET allItems == fetchListItems(cat.list, PageOf(cat.skip),
                                           cat.sortBy, cat.sortHow)
                paginatedItems ==
                    IF Truthy(cat.sortBy)
                    THEN Slice(allItems, cat.skip, cat.skip + limit)
                    ELSE allItems
            IN
            cat' = Respond([cat EXCEPT
                      !.pc = "enrich",
                      !.params = ListParams(PageOf(cat.skip), cat.sortBy),
                      !.allItems = allItems,
                      !.paginatedItems = paginatedItems,
                      !.promises = [k \in 1..Len(paginatedItems) |-> Pending]])
       ELSE cat' = [cat EXCEPT !.pc = "sent", !.status = 500]
    /\ UNCHANGED <<now, cacheVars, syncVars, siteVars>>

\* getMetadataByTmdbId settles for one item: the mapper returns the meta,
\* or null from its catch.  order lists the tasks as they complete.
EnrichReply(k, ok) ==
    /\ cat.pc = "enrich"
    /\ k \in 1..Len(cat.promises)
    /\ ~cat.promises[k].settled
    /\ cat' = Respond([cat EXCEPT
                  !.order = Append(@, k),
                  !.promises[k] =
                      Fulfilled(IF ok THEN MetaOf(cat.paginatedItems[k])
                                ELSE Null)])
    /\ UNCHANGED <<now, cacheVars, syncVars, siteVars>>

NextCatalog ==
    \/ CatalogRequest
    \/ \E ok \in BOOLEAN : ListReply(ok)
    \/ \E k \in 1..limit, ok \in BOOLEAN : EnrichReply(k, ok)

SpecCatalog == InitSync /\ [][NextCatalog]_vars

(***************************************************************************)
(* Properties of the catalog route.                                        *)
(***************************************************************************)
\* The key the list is to be ordered by: the rank, the instant of
\* listed_at, the place of the lower-cased title among the lower-cased
\* titles, the year.
SortKey(item, sortBy) ==
    IF sortBy = <<"rank">> THEN item.rank
    ELSE IF sortBy = <<"listed", "at">>
         THEN (IF item.listed_at = <<"9">> THEN 9
               ELSE IF item.listed_at = <<"1", "0">> THEN 10 ELSE 11)
    ELSE IF sortBy = <<"title">>
         THEN (IF item.title = <<"A">> THEN 1
               ELSE IF item.title = <<"a", "b">> THEN 2 ELSE 3)
    ELSE item.year

Count(x, arr) == Cardinality({k \in 1..Len(arr) : arr[k] = x})

SortFields == {<<"rank">>, <<"listed", "at">>, <<"title">>, <<"year">>}

(***************************************************************************)
(* C9: with sortBy one of rank, listed_at, title, year and a direction,   *)
(* the items fetched are the whole list ordered by that field (listed_at  *)
(* as an instant, the title lower-cased) in that direction, and the page   *)
(* is the window of limit items of it from skip on; years 2001, 1999,     *)
(* 2010 sorted by year descending are 2010, 2001, 1999 and the window of   *)
(* one item from skip 1 is 2001.                                          *)
(***************************************************************************)
C9_SortedThenWindowed ==
    /\ (/\ cat.pc \in {"enrich", "sent"}
        /\ cat.status # 500
        /\ cat.sortBy \in SortFields
        /\ cat.sortHow \in {"asc", "desc"}) =>
            /\ Len(cat.allItems) = Len(cat.list)
            /\ \A x \in ListItems :
                   Count(x, cat.allItems) = Count(x, cat.list)
            /\ \A k \in 1..(Len(cat.allItems) - 1) :
                   IF cat.sortHow = "asc"
                   THEN SortKey(cat.allItems[k], cat.sortBy)
                            <= SortKey(cat.allItems[k + 1], cat.sortBy)
                   ELSE SortKey(cat.allItems[k], cat.sortBy)
                            >= SortKey(cat.allItems[k + 1], cat.sortBy)
            /\ Len(cat.paginatedItems) =
                   (IF Len(cat.allItems) - cat.skip < 0 THEN 0
                    ELSE Min(limit, Len(cat.allItems) - cat.skip))
            /\ \A k \in 1..Len(cat.paginatedItems) :
                   cat.paginatedItems[k] = cat.allItems[cat.skip + k]
    /\ Sort(<<i1, i2, i3>>, <<"year">>, "desc") = <<i3, i1, i2>>
    /\ Slice(Sort(<<i1, i2, i3>>, <<"year">>, "desc"), 1, 1 + 1) = <<i1>>

C9_Witness ==
    /\ cat.pc = "enrich"
    /\ cat.list = <<i1, i2, i3>>
    /\ cat.sortBy = <<"year">>
    /\ cat.sortHow = "desc"
    /\ cat.skip = 1
    /\ cat.allItems = <<i3, i1, i2>>
    /\ cat.paginatedItems[1] = i1

(***************************************************************************)
(* C10: when the route has answered a page of which exactly one item      *)
(* failed enrichment, the answer has status 200 and its metas are the     *)
(* metas of the other items, in the order of the page, with no null entry. *)
(***************************************************************************)
C10_FailedItemOmitted ==
    (/\ cat.pc = "sent"
     /\ cat.status = 200
     /\ Cardinality({k \in 1..Len(cat.promises) :
                        cat.promises[k].value.null}) = 1) =>
        /\ Len(cat.metas) = Len(cat.paginatedItems) - 1
        /\ \A k \in 1..Len(cat.metas) : ~cat.metas[k].null
        /\ cat.metas =
               Keep([k \in 1..Len(cat.paginatedItems) |->
                        MetaOf(cat.paginatedItems[k])],
                    {k \in 1..Len(cat.promises) :
                        ~cat.promises[k].value.null})

(***************************************************************************)
(* A gateway request under a cache-duration setting: makeGetRequest and    *)
(* makePostRequest after a cache miss.  The setting is read and parsed in  *)
(* the reaction to the upstream response, nowhere else.                    *)
(***************************************************************************)
durFrame ==
    UNCHANGED <<now, cacheVars, cat, syncVars, rf, ts, site, ivl, ann,
                flowVars>>

\* The process starts with TRAKT_CACHE_DURATION = env.
DurationSet(env) ==
    /\ dur.pc = "unset"
    /\ dur' = [dur EXCEPT !.pc = "idle", !.env = env]
    /\ durFrame

\* A request misses the cache and its job issues the upstream call.
DurationCall ==
    /\ dur.pc = "idle"
    /\ dur' = [dur EXCEPT !.pc = "upstream"]
    /\ durFrame

\* .then(async (response) => ...): the setting is parsed; the result is
\* written with the parsed expiry and the request resolves, or the throw
\* of parseCacheDuration reaches .catch and the request rejects.
DurationUpstreamOk ==
    /\ dur.pc = "upstream"
    /\ LET parsed == parseCacheDuration(OrDefault(dur.env, <<"1", "d">>))
       IN  IF parsed.threw
           THEN dur' = [dur EXCEPT !.pc = "done", !.up = "ok", !.out = "err"]
           ELSE dur' = [dur EXCEPT !.pc = "done", !.up = "ok", !.out = "ok",
                                   !.ttl = <<parsed.value>>]
    /\ durFrame

\* .catch(error => ... reject(error))
DurationUpstreamFail(status) ==
    /\ dur.pc = "upstream"
    /\ dur' = [dur EXCEPT !.pc = "done", !.up = "err", !.out = "err",
                          !.status = status]
    /\ durFrame

NextDuration ==
    \/ \E env \in Settings : DurationSet(env)
    \/ DurationCall
    \/ DurationUpstreamOk
    \/ \E status \in {0, 401, 500} : DurationUpstreamFail(status)

SpecDuration == InitSync /\ [][NextDuration]_vars

\* "<n>d" or "<n>h": a count written in digits, then the unit.
WellFormedDuration(text) ==
    /\ text # <<>>
    /\ text[Len(text)] \in {"d", "h"}
    /\ SliceButLast(text) # <<>>
    /\ LeadingDigits(SliceButLast(text)) = SliceButLast(text)

(***************************************************************************)
(* C21: cache TTL texts are parsed strictly.  parseCacheDuration returns   *)
(* n*86400 for "<n>d" and n*3600 for "<n>h" and raises an error for every  *)
(* other text, never a default; and a malformed TTL setting is fatal when  *)
(* the configuration is read: a process with such a setting serves no      *)
(* request, so no request fails after its upstream call succeeded.         *)
(***************************************************************************)
C21_MalformedTtlFatalAtParse ==
    /\ \A text \in Settings :
           LET r == parseCacheDuration(text) IN
           IF WellFormedDuration(text)
           THEN /\ ~r.threw
                /\ r.value = DecimalValue(SliceButLast(text))
                             * (IF text[Len(text)] = "d" THEN 86400 ELSE 3600)
           ELSE r.threw
    /\ ~WellFormedDuration(OrDefault(dur.env, <<"1", "d">>)) =>
           dur.pc \in {"unset", "idle"}
    /\ (dur.pc = "done" /\ dur.up = "ok") => dur.out = "ok"

(***************************************************************************)
(* handleTraktHistory under a fetch-interval setting, up to the decision   *)
(* of Check.                                                               *)
(***************************************************************************)
ivlFrame ==
    UNCHANGED <<now, cacheVars, cat, syncVars, rf, ts, site, dur, ann,
                flowVars>>

\* The process starts with TRAKT_HISTORY_FETCH_INTERVAL = env; row is the
\* state of the user's credential record.
IntervalSet(env, row) ==
    /\ ivl.pc = "unset"
    /\ ivl' = [ivl EXCEPT !.pc = "idle", !.env = env, !.row = row]
    /\ ivlFrame

\* handleTraktHistory up to its first await: the interval is computed, and
\* either the throw rejects the call or the Check query is sent.
IntervalCall ==
    /\ ivl.pc = "idle"
    /\ IF intervalInMs(OrDefault(ivl.env, <<"2", "4", "h">>)).threw
       THEN ivl' = [ivl EXCEPT !.pc = "thrown"]
       ELSE ivl' = [ivl EXCEPT !.pc = "check", !.store = TRUE]
    /\ ivlFrame

\* The Check query settles:
\* !lastFetchedAt || (now - lastFetchedAt) >= intervalInMs.  With a record
\* the pass goes on to Fetch, without one the tokens query finds no row.
IntervalCheckReply ==
    /\ ivl.pc = "check"
    /\ LET interval == intervalInMs(OrDefault(ivl.env, <<"2", "4", "h">>)).value
       IN  ivl' = [ivl EXCEPT !.pc =
                IF ivl.row = <<"absent">> THEN "annotate"
                ELSE IF GreaterOrEqual(ElapsedOf(ivl.row), interval)
                THEN "fetch" ELSE "annotate"]
    /\ ivlFrame

NextInterval ==
    \/ \E env \in Settings, row \in CheckRows : IntervalSet(env, row)
    \/ IntervalCall
    \/ IntervalCheckReply

SpecInterval == InitSync /\ [][NextInterval]_vars

(***************************************************************************)
(* C22: a malformed fetch interval (a unit other than h or d, or a count   *)
(* that is not a number) raises a configuration error before any store or  *)
(* upstream access; it is never defaulted and never turned into 'never     *)
(* sync'.                                                                  *)
(***************************************************************************)
C22_MalformedIntervalRaises ==
    ~WellFormedDuration(OrDefault(ivl.env, <<"2", "4", "h">>)) =>
        /\ ivl.pc \in {"unset", "idle", "thrown"}
        /\ ~ivl.store

(***************************************************************************)
(* Overlapping passes: every catalog request calls handleTraktHistory, and *)
(* nothing orders the calls of two requests that are served at the same    *)
(* time.  Upstream answers the history calls with a body.                  *)
(***************************************************************************)
\* handleTraktHistory is called while another call may be in progress.
StartOverlapping(p, u) ==
    /\ pass[p].pc = "idle"
    /\ pass' = [pass EXCEPT ![p] =
                  [IdlePass EXCEPT !.pc = "check", !.user = u]]
    /\ UNCHANGED <<now, cacheVars, cat, siteVars, trakt_tokens, trakt_history,
                   hver, issued, txn>>

NextOverlap ==
    \/ Tick
    \/ \E p \in PassIds, u \in Users : StartOverlapping(p, u)
    \/ \E p \in PassIds : CheckReply(p)
    \/ \E p \in PassIds : TokensReply(p)
    \/ \E p \in PassIds, b \in Batches :
           \E o \in {x \in FetchOutcomes(b) : x.st = "ok"} : FetchReply(p, b, o)
    \/ \E p \in PassIds : StampReply(p)
    \/ \E p \in PassIds, type \in {"movies", "series"} : AnnotateReply(p, type)
    \/ \E p \in PassIds, b \in Batches : TxSelectReply(p, b)
    \/ \E p \in PassIds, b \in Batches : TxWriteReply(p, b)
    \/ \E p \in PassIds, b \in Batches : TxCommitReply(p, b)

SpecOverlap == InitSync /\ [][NextOverlap]_vars

\* The pass has fetched the history and upserted a batch of it.
FullResync(p) ==
    /\ pass[p].calls # <<>>
    /\ \E b \in Batches : txn[p][b].st = "committed"

(***************************************************************************)
(* C23: for every user, two full history re-synchronizations (passes that  *)
(* fetch and upsert) are at least the cooldown interval apart, also when   *)
(* several calls for the user run at the same time and all read            *)
(* last_fetched_at before any of them stamps it.                           *)
(***************************************************************************)
C23_ResyncsCooldownApart ==
    \A p, q \in PassIds :
        (/\ p # q
         /\ pass[p].user = pass[q].user
         /\ FullResync(p)
         /\ FullResync(q)
         /\ pass[p].nowAt <= pass[q].nowAt) =>
            pass[q].nowAt - pass[p].nowAt >= TRAKT_HISTORY_FETCH_INTERVAL

(***************************************************************************)
(* C24: Check proceeds to Fetch exactly when the user's credential record  *)
(* exists with last_fetched_at null or with now - last_fetched_at >=       *)
(* interval, equality included (the queries answering); otherwise the pass *)
(* goes to Annotate, and for a username without a credential record there  *)
(* is no upstream call, no refresh, no history write and no stamp.         *)
(***************************************************************************)
\* At its Check the pass found the record, never stamped or stamped at
\* least the interval ago.
Due(p) == trakt_tokens[pass[p].user].present /\ ~pass[p].cool

C24_CheckDecidesFetch ==
    \A p \in PassIds :
        pass[p].pc \notin {"idle", "returned", "check"} =>
            /\ pass[p].calls # <<>> => Due(p)
            /\ (/\ Due(p)
                /\ pass[p].pc # "tokens"
                /\ pass[p].thrown # DbError
                /\ pass[p].caught # DbError) => pass[p].calls # <<>>
            /\ (~Due(p) /\ pass[p].thrown = NoErr) =>
                   /\ pass[p].pc \in {"tokens", "annotate", "done"}
                   /\ pass[p].cool => pass[p].pc # "tokens"
                   /\ pass[p].calls = <<>>
                   /\ pass[p].nRefresh = 0
                   /\ ~pass[p].stamped
                   /\ \A b \in Batches : txn[p][b].st = "none"

\* A pass whose Check ran exactly one interval after the stamp fetches.
C24_Witness ==
    \E p \in PassIds :
        /\ pass[p].pc = "fetch"
        /\ pass[p].attempt = 1
        /\ trakt_tokens[pass[p].user].last_fetched_at = <<0>>
        /\ pass[p].nowAt - 0 = TRAKT_HISTORY_FETCH_INTERVAL
        /\ pass[p].calls # <<>>

(***************************************************************************)
(* The history saves of the /callback route: once the tokens of the user   *)
(* are stored and both histories fetched, saveUserWatchedHistory is called *)
(* for the movies and for the shows; two callbacks may be in progress at   *)
(* the same time.                                                          *)
(***************************************************************************)
\* A second watch of m1's movie, and a show filed under m1's imdb id.
m1b == HistoryItem("movie", "tt1", "1", "A2", 2)
sT == HistoryItem("show", "tt1", "7", "T", 1)

CallbackHistories(b) ==
    IF b = "movies" THEN {<<m1, m1b>>, <<mN, m1>>} ELSE {<<>>, <<sT>>}

\* routes/trakt.js 39-52: saveUserTokens, then both saves are started.
CallbackSaves(p, username, movieHistory, showHistory) ==
    /\ \A b \in Batches : txn[p][b].st = "none"
    /\ trakt_tokens' = [trakt_tokens EXCEPT ![username] =
            IF @.present THEN @ ELSE [@ EXCEPT !.present = TRUE]]
    /\ txn' = [txn EXCEPT ![p] =
            [b \in Batches |->
                StartSave(username, IF b = "movies" THEN movieHistory
                                    ELSE showHistory)]]
    /\ UNCHANGED <<now, cacheVars, cat, siteVars, trakt_history, hver, issued,
                   pass>>

NextUpsert ==
    \/ \E p \in PassIds, u \in Users :
           \E hm \in CallbackHistories("movies"),
              hs \in CallbackHistories("shows") : CallbackSaves(p, u, hm, hs)
    \/ \E p \in PassIds, b \in Batches : TxSelectReply(p, b)
    \/ \E p \in PassIds, b \in Batches : TxWriteReply(p, b)
    \/ \E p \in PassIds, b \in Batches : TxCommitReply(p, b)
    \/ \E p \in PassIds, b \in Batches : TxError(p, b)

SpecUpsert == InitSync /\ [][NextUpsert]_vars

\* The occurrence of the id of batch[k] whose values the save leaves: the
\* last one (a null id names no other item).
LastOccurrence(batch, k) ==
    IF batch[k].imdb = NULL THEN k
    ELSE CHOOSE i \in k..Len(batch) :
            /\ batch[i].imdb = batch[k].imdb
            /\ \A j \in (i + 1)..Len(batch) : batch[j].imdb # batch[k].imdb

\* The row holds the upstream values of the item.
HoldsItem(row, username, item) ==
    /\ row.username = username
    /\ row.imdb_id = item.imdb
    /\ row.watched_at = item.last_watched_at
    /\ row.title = item.title
    /\ row.tmdb_id = item.tmdb
    /\ row.type = item.kind

\* What the commit of transaction t owes, from table old to table new.
UpsertEffect(t, old, new) ==
    /\ \A k \in 1..Len(t.batch) : \E j \in 1..Len(new) :
           HoldsItem(new[j], t.username, t.batch[LastOccurrence(t.batch, k)])
    /\ Len(new) >= Len(old)
    /\ \A j \in 1..Len(old) :
           \/ new[j] = old[j]
           \/ /\ old[j].username = t.username
              /\ new[j].username = t.username
              /\ new[j].imdb_id = old[j].imdb_id
              /\ \E k \in 1..Len(t.batch) : t.batch[k].imdb = old[j].imdb_id
    /\ \A j \in (Len(old) + 1)..Len(new) :
           /\ new[j].username = t.username
           /\ \E k \in 1..Len(t.batch) : t.batch[k].imdb = new[j].imdb_id

(***************************************************************************)
(* C26: when the Upsert of a batch commits, every item of the batch has a  *)
(* history row for (username, imdb id) with the item's watched_at, title,  *)
(* tmdb_id and type (those of the last occurrence when an id repeats in    *)
(* the batch); rows for ids not in the batch and rows of other users are   *)
(* unchanged.                                                              *)
(***************************************************************************)
C26_CommittedUpsert ==
    [][\A p \in PassIds, b \in Batches :
          (txn[p][b].st = "commit" /\ txn'[p][b].st = "committed") =>
              UpsertEffect(txn[p][b], trakt_history, trakt_history')]_vars

\* A committed batch with a repeated id has left the values of the last
\* occurrence, next to a row of the other user.
C26_Witness ==
    \E p \in PassIds :
        /\ txn[p]["movies"].st = "committed"
        /\ txn[p]["movies"].batch = <<m1, m1b>>
        /\ txn[p]["movies"].username = "u1"
        /\ hver = txn[p]["movies"].hv1
        /\ \E j \in 1..Len(trakt_history) :
               HoldsItem(trakt_history[j], "u1", m1b)
        /\ \E j \in 1..Len(trakt_history) : trakt_history[j].username = "u2"

(***************************************************************************)
(* Annotate under a configured marker, over the tables the callbacks of    *)
(* two users have filled.                                                  *)
(***************************************************************************)
AnnotateHistories(b) ==
    IF b = "movies" THEN {<<m1>>, <<mN>>} ELSE {<<s1>>, <<sT>>}

ConfiguredEmojis == {<<>>, <<"star">>}

\* A callback that reaches its saves when no other save is in progress.
CallbackInTurn(p, username, movieHistory, showHistory) ==
    /\ \A q \in PassIds, b \in Batches : ~Open(txn[q][b])
    /\ CallbackSaves(p, username, movieHistory, showHistory)

\* handleTraktHistory from its Annotate query on (350-363), for a user in
\* the cooldown: watchedEmoji = parsedConfig.watchedEmoji || default.
AnnotateCall(username, type, configured) ==
    /\ ann.pc = "idle"
    /\ LET emoji == IF configured = <<>> THEN watchedEmoji ELSE configured[1]
       IN  ann' = [pc |-> "done", user |-> username, type |-> type,
                   emoji |-> configured, ver |-> hver,
                   out |-> MarkWatchedWith(filteredResults,
                               traktIdsOf(username, dbType(type)), emoji)]
    /\ UNCHANGED <<now, cacheVars, cat, syncVars, rf, ts, site, dur, ivl,
                   flowVars>>

\* The caller has taken the list.
AnnotateReturn ==
    /\ ann.pc = "done"
    /\ ann' = IdleAnn
    /\ UNCHANGED <<now, cacheVars, cat, syncVars, rf, ts, site, dur, ivl,
                   flowVars>>

NextAnnotate ==
    \/ \E p \in PassIds, u \in Users :
           \E hm \in AnnotateHistories("movies"),
              hs \in AnnotateHistories("shows") : CallbackInTurn(p, u, hm, hs)
    \/ \E p \in PassIds, b \in Batches : TxSelectReply(p, b)
    \/ \E p \in PassIds, b \in Batches : TxWriteReply(p, b)
    \/ \E p \in PassIds, b \in Batches : TxCommitReply(p, b)
    \/ \E u \in Users, type \in {"movies", "series"} :
           \E e \in ConfiguredEmojis : AnnotateCall(u, type, e)
    \/ AnnotateReturn

SpecAnnotate == InitSync /\ [][NextAnnotate]_vars

\* The table holds a row of the user and the media type with this id.
Watched(id, username, mediaType) ==
    \E j \in 1..Len(trakt_history) :
        /\ trakt_history[j].username = username
        /\ trakt_history[j].type = mediaType
        /\ trakt_history[j].imdb_id = id

(***************************************************************************)
(* C25: Annotate returns the input items in the same order and number; an  *)
(* item's display name is prefixed with the marker (the default one, or    *)
(* the configured one) if and only if its id is the imdb_id of a persisted *)
(* history row of that user and of the requested media type (movies ->     *)
(* movie, series -> show); every other item and field is unchanged.        *)
(***************************************************************************)
C25_AnnotateMarksWatched ==
    (ann.pc = "done" /\ ann.ver = hver) =>
        LET marker == IF ann.emoji = <<>> THEN watchedEmoji ELSE ann.emoji[1]
            mediaType == IF ann.type = "movies" THEN "movie" ELSE "show"
        IN
        /\ Len(ann.out) = Len(filteredResults)
        /\ \A i \in 1..Len(filteredResults) :
               LET item == filteredResults[i]
                   shown == IF item.name # <<>> THEN item.name ELSE item.title
               IN
               /\ ann.out[i].id = item.id
               /\ ann.out[i].title = item.title
               /\ IF Watched(item.id, ann.user, mediaType)
                  THEN ann.out[i].name = <<marker, " ">> \o shown
                  ELSE ann.out[i].name = item.name

\* A series request of u1 under a configured marker: the show is marked by
\* its title, the id watched only as a movie and the id watched only by u2
\* are not.
C25_Witness ==
    /\ ann.pc = "done"
    /\ ann.ver = hver
    /\ ann.user = "u1"
    /\ ann.type = "series"
    /\ ann.emoji = <<"star">>
    /\ ann.out[2].name = <<"star", " ", "S">>
    /\ ann.out[1].name = <<"A">>
    /\ Watched("tt1", "u1", "movie")
    /\ Watched("tt1", "u2", "show")

(***************************************************************************)
(* fetchListItems with sortBy, on lists whose items tie: the title and the *)
(* year may be missing (item.movie?.title || item.show?.title || '', and   *)
(* 0 for the year), and the direction is any text.                         *)
(***************************************************************************)
j1 == ListItem(1, <<"9">>, "movie", <<>>, 0, "tt1")
j2 == ListItem(2, <<"9">>, "show", <<"a">>, 2001, "tt2")
j3 == ListItem(3, <<"1", "0">>, "movie", <<"A">>, 0, "tt3")
j4 == ListItem(3, <<"1", "0">>, "show", <<>>, 2001, "tt4")

TiedLists == UNION {[1..n -> {j1, j2, j3, j4}] : n \in 0..MaxLen}

SortBys == {<<"rank">>, <<"listed", "at">>, <<"title">>, <<"year">>, <<"votes">>}
SortHows == {"asc", "desc", "DESC"}

\* fetchListItems(listId, type, null, null, sortBy, sortHow) settles.
SortedListReply(list, sortBy, sortHow) ==
    /\ cat.pc = "idle"
    /\ cat' = [IdleCat EXCEPT
                 !.pc = "sorted", !.list = list, !.sortBy = sortBy,
                 !.sortHow = sortHow,
                 !.allItems = fetchListItems(list, 1, sortBy, sortHow)]
    /\ UNCHANGED <<now, cacheVars, syncVars, siteVars>>

\* The route has answered; the next request may come.
SortedListTaken ==
    /\ cat.pc = "sorted"
    /\ cat' = IdleCat
    /\ UNCHANGED <<now, cacheVars, syncVars, siteVars>>

NextSort ==
    \/ \E list \in TiedLists, sortBy \in SortBys, sortHow \in SortHows :
           SortedListReply(list, sortBy, sortHow)
    \/ SortedListTaken

SpecSort == InitSync /\ [][NextSort]_vars

\* The value the items are to be ordered by: the rank, the instant of
\* listed_at, the title without its case (none: the empty text, first),
\* the year (none: 0); an unrecognised field orders nothing.
TieKey(item, sortBy) ==
    IF sortBy = <<"rank">> THEN item.rank
    ELSE IF sortBy = <<"listed", "at">>
         THEN (IF item.listed_at = <<"9">> THEN 9 ELSE 10)
    ELSE IF sortBy = <<"title">> THEN (IF item.title = <<>> THEN 0 ELSE 1)
    ELSE IF sortBy = <<"year">> THEN item.year
    ELSE 0

(***************************************************************************)
(* C27: local sorting in fetchListItems is ascending unless sortHow is     *)
(* exactly 'desc', and is stable: items with equal sort keys (a missing    *)
(* year as 0, a missing title as the empty text, every item under an       *)
(* unrecognised sortBy) keep their input order, in both directions.        *)
(***************************************************************************)
C27_StableDirectedSort ==
    cat.pc = "sorted" =>
        /\ Len(cat.allItems) = Len(cat.list)
        /\ \E pi \in Permutations(1..Len(cat.list)) :
               /\ \A k \in 1..Len(cat.list) :
                      cat.allItems[k] = cat.list[pi[k]]
               /\ \A k, l \in 1..Len(cat.list) :
                      k < l =>
                          LET keyK == TieKey(cat.list[pi[k]], cat.sortBy)
                              keyL == TieKey(cat.list[pi[l]], cat.sortBy)
                          IN  IF keyK = keyL THEN pi[k] < pi[l]
                              ELSE IF cat.sortHow = "desc" THEN keyK > keyL
                              ELSE keyK < keyL

\* Descending by title: the two titled items, equal without case, come
\* first in their input order, then the two untitled ones in theirs.
C27_Witness ==
    /\ cat.pc = "sorted"
    /\ cat.sortBy = <<"title">>
    /\ cat.sortHow = "desc"
    /\ cat.list = <<j4, j3, j2>>
    /\ cat.allItems = <<j3, j2, j4>>

(***************************************************************************)
(* C28: for an arbitrary list, with sortBy the upstream request carries no *)
(* page and no limit (the whole list is fetched) and skip and limit are    *)
(* applied locally; without sortBy the request carries                     *)
(* page = floor(skip / limit) + 1 and limit, and the response is neither   *)
(* windowed nor sorted locally.                                            *)
(***************************************************************************)
C28_PagingLocalOrUpstream ==
    (cat.pc \in {"enrich", "sent"} /\ cat.status # 500) =>
        IF cat.sortBy # <<>>
        THEN /\ ~cat.params.paged
             /\ Len(cat.allItems) = Len(cat.list)
             /\ \A x \in ListItems :
                    Count(x, cat.allItems) = Count(x, cat.list)
             /\ Len(cat.paginatedItems) =
                    (IF Len(cat.allItems) - cat.skip < 0 THEN 0
                     ELSE Min(limit, Len(cat.allItems) - cat.skip))
             /\ \A k \in 1..Len(cat.paginatedItems) :
                    cat.paginatedItems[k] = cat.allItems[cat.skip + k]
        ELSE /\ cat.params.paged
             /\ cat.params.page = (cat.skip \div limit) + 1
             /\ cat.params.limit = limit
             /\ cat.paginatedItems = cat.allItems
             /\ LET first == (cat.params.page - 1) * cat.params.limit IN
                /\ Len(cat.allItems) =
                       (IF Len(cat.list) - first < 0 THEN 0
                        ELSE Min(cat.params.limit, Len(cat.list) - first))
                /\ \A k \in 1..Len(cat.allItems) :
                       cat.allItems[k] = cat.list[first + k]

\* A sorted request past the first page: the whole list was fetched, and
\* the page is cut locally.
C28_Witness ==
    /\ cat.pc = "enrich"
    /\ cat.sortBy = <<"rank">>
    /\ cat.sortHow = "desc"
    /\ cat.skip = 2
    /\ cat.list = <<i1, i2, i3>>
    /\ ~cat.params.paged
    /\ cat.allItems = <<i3, i2, i1>>
    /\ cat.paginatedItems = <<i1>>

(***************************************************************************)
(* C29: the enrichment tasks of a page run concurrently and complete in    *)
(* any order, yet the page result lists the enriched items in the order of *)
(* the page, whatever the order of completion.                             *)
(***************************************************************************)
C29_OrderKeptAcrossCompletion ==
    (cat.pc = "sent" /\ cat.status = 200) =>
        /\ Len(cat.order) = Len(cat.paginatedItems)
        /\ Keep(cat.metas, {k \in 1..Len(cat.metas) : ~cat.metas[k].null})
               = Keep([k \in 1..Len(cat.paginatedItems) |->
                          MetaOf(cat.paginatedItems[k])],
                      {k \in 1..Len(cat.promises) :
                          ~cat.promises[k].value.null})

\* The second task completed first; the metas are in the order of the page.
C29_Witness ==
    /\ cat.pc = "sent"
    /\ cat.status = 200
    /\ cat.order = <<2, 1>>
    /\ cat.paginatedItems = <<i1, i2>>
    /\ cat.metas = <<MetaOf(i1), MetaOf(i2)>>

(***************************************************************************)
(* C30: a request that missed the cache issues exactly one upstream call   *)
(* and never a second one.  When that call fails (a network error or any   *)
(* HTTP status, 401 included) the request rejects with the upstream        *)
(* failure and its status code, and stays rejected without another call.   *)
(***************************************************************************)
GatewayRequests == {r \in Rid : req[r].kind \in {"GET", "POST"}}

C30_OneCallNoRetry ==
    \A r \in GatewayRequests :
        /\ req[r].calls <= 1
        /\ ~req[r].enq => req[r].calls = 0
        /\ (req[r].enq /\ req[r].pc = "done") => req[r].calls = 1
        /\ req[r].up.st = "err" =>
               /\ req[r].pc = "done"
               /\ req[r].calls = 1
               /\ req[r].out = req[r].up
               /\ r \notin running[req[r].kind]
               /\ \A i \in 1..Len(queue[req[r].kind]) :
                      queue[req[r].kind][i] # r

\* A request was rejected with 401 after its one call, another with a
\* network error after its one call.
C30_Witness ==
    \E r1, r2 \in GatewayRequests :
        /\ req[r1].pc = "done" /\ req[r1].out.st = "err"
        /\ req[r1].out.status = 401 /\ req[r1].calls = 1
        /\ req[r2].pc = "done" /\ req[r2].out.st = "err"
        /\ req[r2].out.status = 0 /\ req[r2].calls = 1

(***************************************************************************)
(* C31: when a request missed the cache, succeeded upstream and its write  *)
(* reached an available cache, the result is stored under the request's    *)
(* key with the TTL of its provider; an identical request that looks the   *)
(* key up before the expiry gets a value equal to that result without an   *)
(* upstream call; a lookup at or after the expiry is a miss and the        *)
(* request is submitted for an upstream call.                              *)
(***************************************************************************)
ProviderTtl(r) ==
    IF req[r].kind = "TMDB" THEN TMDB_CACHE_DURATION ELSE TRAKT_CACHE_DURATION

ServedFromEarlier(r2) ==
    \E r1 \in Rid \ {r2} :
        /\ req[r1].key = req[r2].key
        /\ req[r1].pc = "done"
        /\ req[r1].enq
        /\ req[r1].up.st = "ok"
        /\ req[r1].out.st = "ok"
        /\ req[r2].out.val = req[r1].out.val

C31_StoredThenServedUntilExpiry ==
    /\ [](\A r \in Rid :
            (req[r].pc = "done" /\ req[r].liveAtLookup) =>
                /\ req[r].out.st = "ok"
                /\ req[r].calls = 0
                /\ ServedFromEarlier(r))
    /\ [][\A r \in Rid :
             /\ (SetSettles(r) /\ redisUp /\ ~redisUnavailable') =>
                    /\ req'[r].pc = "done"
                    /\ req'[r].out.st = "ok"
                    /\ redisStore' = [redisStore EXCEPT ![req[r].key] =
                           [val |-> JSONstringify(req'[r].out.val),
                            exp |-> now + ProviderTtl(r)]]
                    /\ JSONparse(redisStore'[req[r].key].val)
                           = req'[r].out.val
             /\ (GetSettles(r) /\ now >= redisStore[req[r].key].exp) =>
                    /\ req'[r].pc = "queued"
                    /\ req'[r].calls = 0]_vars

\* A request stored its result and an identical request made before the
\* expiry was answered from the entry.
C31_Witness ==
    \E r1, r2 \in Rid :
        /\ r1 # r2
        /\ req[r1].key = req[r2].key
        /\ req[r1].pc = "done" /\ req[r1].enq /\ req[r1].calls = 1
        /\ req[r1].out.val = <<1, 2>>
        /\ req[r2].pc = "done" /\ req[r2].liveAtLookup
        /\ req[r2].out.val = <<1, 2>>
        /\ req[r2].calls = 0
        /\ redisStore[req[r1].key].exp = now + ProviderTtl(r1)

(***************************************************************************)
(* Requests that differ in the verb, the access token or the body, against *)
(* a cache that works.                                                     *)
(***************************************************************************)
NextKeys ==
    \/ Tick
    \/ \E r \in Rid, c \in ScopedCalls : Call(r, c)
    \/ \E r \in Rid : RedisGetReply(r, TRUE)
    \/ \E q \in QueueNames : QueueStart(q)
    \/ \E r \in Rid, data \in ResponseData : UpstreamOk(r, data)
    \/ \E r \in Rid : RedisSetReply(r, TRUE)

SpecKeys == InitSync /\ [][NextKeys]_vars

(***************************************************************************)
(* C32: cache keys keep verbs, access tokens and bodies apart.  Two        *)
(* requests have the same key only when they have the same verb, the same  *)
(* access token (or both none), the same URL and the same body; so a       *)
(* request is answered from the cache only with what an earlier request of *)
(* the same verb, token, URL and body got from upstream.                   *)
(***************************************************************************)
SameCall(r1, r2) ==
    /\ req[r1].kind = req[r2].kind
    /\ req[r1].args = req[r2].args

C32_KeysSeparateScopes ==
    /\ \A r1, r2 \in Rid :
           (/\ req[r1].pc # "idle"
            /\ req[r2].pc # "idle"
            /\ req[r1].key = req[r2].key) => SameCall(r1, r2)
    /\ \A r2 \in Rid :
           (req[r2].pc = "done" /\ req[r2].liveAtLookup) =>
               \E r1 \in Rid \ {r2} :
                   /\ SameCall(r1, r2)
                   /\ req[r1].up.st = "ok"
                   /\ req[r2].out.val = req[r1].out.val
    /\ \A c1, c2 \in ScopedCalls :
           c1.key = c2.key => c1 = c2

\* One URL, two access tokens: each request went upstream and each result
\* is stored under its own key.
C32_Witness ==
    \E r1, r2 \in Rid :
        /\ req[r1].kind = "GET" /\ req[r2].kind = "GET"
        /\ req[r1].args.url = req[r2].args.url
        /\ req[r1].args.accessToken = <<"tokA">>
        /\ req[r2].args.accessToken = <<"tokB">>
        /\ req[r1].pc = "done" /\ req[r1].out.val = <<1, 2>>
        /\ req[r2].pc = "done" /\ req[r2].out.val = <<>>
        /\ req[r2].calls = 1
        /\ Live(req[r1].key) /\ Live(req[r2].key)
        /\ redisStore[req[r1].key].val = JSONstringify(<<1, 2>>)
        /\ redisStore[req[r2].key].val = JSONstringify(<<>>)

(***************************************************************************)
(* GET /callback, one step per await.  Every failure ends in the catch of  *)
(* the route (500) or in one of its early returns (400, 500).              *)
(***************************************************************************)
callbackFrame ==
    UNCHANGED <<now, cacheVars, cat, syncVars, rf, site, confVars>>

Codes == {"", "c1"}

\* What exchangeCodeForToken and fetchUserProfile settle with.
ExchangeOutcomes ==
    {Thrown} \cup {Returned(<<a, r>>) : a, r \in TokenTexts}

ProfileOutcomes == {Thrown} \cup {Returned(u) : u \in Usernames \cup {""}}

Sent(c, status) == [c EXCEPT !.pc = "sent", !.status = status]

\* A mutant of TokensMissing: only a response without any token is refused.
TokensMissing_both(access_token, refresh_token) ==
    access_token = "" /\ refresh_token = ""

\* !access_token || !refresh_token
TokensMissing(access_token, refresh_token) ==
    access_token = "" \/ refresh_token = ""

\* The request arrives: without a code it is answered 400.
CallbackStart(c, code) ==
    /\ cb[c].pc = "idle"
    /\ IF c = 1 THEN TRUE ELSE cb[c - 1].pc # "idle"
    /\ cb' = [cb EXCEPT ![c] =
                IF code = "" THEN Sent(@, 400)
                ELSE [@ EXCEPT !.pc = "exchange", !.code = code]]
    /\ UNCHANGED ts
    /\ callbackFrame

\* exchangeCodeForToken settles.
ExchangeReply(c, o) ==
    /\ cb[c].pc = "exchange"
    /\ cb' = [cb EXCEPT ![c] =
                IF o.threw THEN Sent(@, 500)
                ELSE IF TokensMissing(o.value[1], o.value[2]) THEN Sent(@, 500)
                ELSE [@ EXCEPT !.pc = "profile", !.access_token = o.value[1],
                               !.refresh_token = o.value[2]]]
    /\ UNCHANGED ts
    /\ callbackFrame

\* fetchUserProfile settles.
ProfileReply(c, o) ==
    /\ cb[c].pc = "profile"
    /\ cb' = [cb EXCEPT ![c] =
                IF o.threw THEN Sent(@, 500)
                ELSE IF o.value = "" THEN Sent(@, 500)
                ELSE [@ EXCEPT !.pc = "persist", !.username = o.value]]
    /\ UNCHANGED ts
    /\ callbackFrame

\* saveUserTokens settles: the statement ran, or the query failed.
PersistReply(c, ok) ==
    /\ cb[c].pc = "persist"
    /\ IF ok
       THEN /\ cb' = [cb EXCEPT ![c].pc = "fetch"]
            /\ ts' = [ts EXCEPT
                        !.rows = saveUserTokens(ts.rows, cb[c].username,
                                                cb[c].access_token,
                                                cb[c].refresh_token),
                        !.last[cb[c].username] =
                            <<cb[c].access_token, cb[c].refresh_token>>,
                        !.got = NoGot]
       ELSE /\ cb' = [cb EXCEPT ![c] = Sent(@, 500)]
            /\ UNCHANGED ts
    /\ callbackFrame

\* Both history fetches settle; the two saves are started.
HistoryReply(c, ok) ==
    /\ cb[c].pc = "fetch"
    /\ cb' = [cb EXCEPT ![c] =
                IF ok THEN [@ EXCEPT !.pc = "save"] ELSE Sent(@, 500)]
    /\ UNCHANGED ts
    /\ callbackFrame

\* Both saves settle: res.redirect, or the catch.
SavesReply(c, ok) ==
    /\ cb[c].pc = "save"
    /\ cb' = [cb EXCEPT ![c] = Sent(@, IF ok THEN 302 ELSE 500)]
    /\ UNCHANGED ts
    /\ callbackFrame

NextCallback ==
    \/ \E c \in CallbackIds, code \in Codes : CallbackStart(c, code)
    \/ \E c \in CallbackIds, o \in ExchangeOutcomes : ExchangeReply(c, o)
    \/ \E c \in CallbackIds, o \in ProfileOutcomes : ProfileReply(c, o)
    \/ \E c \in CallbackIds, ok \in BOOLEAN : PersistReply(c, ok)
    \/ \E c \in CallbackIds, ok \in BOOLEAN : HistoryReply(c, ok)
    \/ \E c \in CallbackIds, ok \in BOOLEAN : SavesReply(c, ok)

SpecCallback == InitSync /\ [][NextCallback]_vars

(***************************************************************************)
(* C33: a credential record is created or modified only by a callback      *)
(* whose code exchange returned both tokens and whose profile fetch        *)
(* returned a username, and then with exactly these three values; a        *)
(* callback that fails before leaves every record as it was; and the       *)
(* history saves of a callback start only when the record of its user      *)
(* exists.                                                                 *)
(***************************************************************************)
HasRecord(username) ==
    \E i \in 1..Len(ts.rows) : ts.rows[i].username = username

Authorized(c) ==
    /\ cb[c].code # ""
    /\ cb[c].access_token # ""
    /\ cb[c].refresh_token # ""
    /\ cb[c].username # ""

C33_RecordOnlyAfterAuthorization ==
    /\ [](\A c \in CallbackIds :
            /\ cb[c].pc \in {"persist", "fetch", "save"} => Authorized(c)
            /\ cb[c].pc \in {"fetch", "save"} => HasRecord(cb[c].username)
            /\ cb[c].status = 302 => HasRecord(cb[c].username))
    /\ [][/\ ts.rows' # ts.rows =>
                \E c \in CallbackIds :
                    /\ cb[c].pc = "persist"
                    /\ cb'[c].pc = "fetch"
                    /\ Authorized(c)
                    /\ ts.rows' = saveUserTokens(ts.rows, cb[c].username,
                                                 cb[c].access_token,
                                                 cb[c].refresh_token)
          /\ \A c \in CallbackIds :
                (/\ cb[c].pc \in {"idle", "exchange", "profile", "persist"}
                 /\ cb'[c].pc = "sent") => ts.rows' = ts.rows
          /\ \A c \in CallbackIds :
                (cb[c].pc # "save" /\ cb'[c].pc = "save") =>
                    HasRecord(cb[c].username)]_vars

\* One callback failed at the profile fetch and stored nothing; another
\* stored its pair and has started its history saves.
C33_Witness ==
    \E c, d \in CallbackIds :
        /\ cb[c].pc = "sent" /\ cb[c].status = 500
        /\ cb[c].access_token = "tA" /\ cb[c].username = ""
        /\ cb[d].pc = "save" /\ cb[d].username = "u2"
        /\ Len(ts.rows) = 1
        /\ ts.rows[1].username = "u2"
        /\ ts.rows[1].access_token = cb[d].access_token

(***************************************************************************)
(* C34: when the refresh call of a pass fails, the pass leaves the stored  *)
(* credential record as it is (both tokens and last_fetched_at), issues no *)
(* further history call, starts no save and does not stamp; it goes on to  *)
(* Annotate.                                                               *)
(***************************************************************************)
RefreshError == Err("Request failed", 400)

RefreshFailed(p) == InFlight(p) /\ pass[p].caught = RefreshError

C34_FailedRefreshChangesNothing ==
    /\ [](\A p \in PassIds : RefreshFailed(p) =>
            /\ pass[p].pc \in {"annotate", "done"}
            /\ pass[p].nRefresh = 1
            /\ Len(pass[p].calls) = 2
            /\ ~pass[p].persisted
            /\ ~pass[p].stamped
            /\ \A b \in Batches : txn[p][b].st = "none")
    /\ [][\A p \in PassIds :
             /\ (pass[p].pc = "refresh" /\ pass'[p].pc \notin {"refresh", "update"})
                    => /\ pass'[p].caught = RefreshError
                       /\ pass'[p].pc = "annotate"
                       /\ trakt_tokens' = trakt_tokens
                       /\ trakt_history' = trakt_history
                       /\ txn' = txn
             /\ RefreshFailed(p) => trakt_tokens' = trakt_tokens]_vars

\* The pass of a user with a stamped record ended after a failed refresh:
\* two history calls, record as before.
C34_Witness ==
    \E p \in PassIds :
        /\ pass[p].pc = "done"
        /\ pass[p].caught = RefreshError
        /\ pass[p].first401
        /\ Len(pass[p].calls) = 2
        /\ pass[p].thrown = NoErr
        /\ trakt_tokens[pass[p].user].present
        /\ trakt_tokens[pass[p].user].access_token = pass[p].calls[1][2]

(***************************************************************************)
(* The credential record of one user under every writer: the /callback     *)
(* route persists a newly issued pair, concurrent passes refresh and       *)
(* update, and a pass that fetched stamps last_fetched_at.                 *)
(***************************************************************************)
\* saveUserTokens on the record of the user: INSERT ... ON CONFLICT
\* (username) DO UPDATE SET access_token = $2, refresh_token = $3.
UpsertTokens(username, accessToken, refreshToken) ==
    [trakt_tokens EXCEPT ![username] =
        [@ EXCEPT !.present = TRUE, !.access_token = accessToken,
                  !.refresh_token = refreshToken]]

\* A /callback of the user completes saveUserTokens with the pair upstream
\* issued for its code.
RacePersist ==
    /\ issued < MaxCallbacks
    /\ issued' = issued + 1
    /\ trakt_tokens' = UpsertTokens(RaceUser, issued + 1, issued + 1)
    /\ UNCHANGED rf
    /\ raceFrame

\* UPDATE trakt_tokens SET last_fetched_at of a pass whose calls succeeded.
RaceStamp(c) ==
    /\ rf.caller[c].pc = "done"
    /\ rf.caller[c].out = "ok"
    /\ trakt_tokens' = [trakt_tokens EXCEPT ![RaceUser].last_fetched_at = <<now>>]
    /\ rf' = [rf EXCEPT !.caller[c].pc = "stamped"]
    /\ raceFrame
    /\ UNCHANGED issued

NextPairs ==
    \/ NextRace
    \/ RacePersist
    \/ \E c \in Callers : RaceStamp(c)

SpecPairs == InitSync /\ [][NextPairs]_vars

(***************************************************************************)
(* C35: the stored credential record always holds an access token and a    *)
(* refresh token of one issued pair, whatever the interleaving of the      *)
(* callback's persist, the refresh-and-update of concurrent passes and     *)
(* their stamps; every write of a token replaces both.                     *)
(***************************************************************************)
C35_StoredPairIssuedTogether ==
    /\ [](\A u \in Users :
            trakt_tokens[u].present =>
                /\ trakt_tokens[u].access_token = trakt_tokens[u].refresh_token
                /\ trakt_tokens[u].access_token \in 0..issued)
    /\ [][\A u \in Users :
             (trakt_tokens'[u].access_token # trakt_tokens[u].access_token
                 \/ trakt_tokens'[u].refresh_token
                        # trakt_tokens[u].refresh_token) =>
                 /\ trakt_tokens'[u].access_token
                        # trakt_tokens[u].access_token
                 /\ trakt_tokens'[u].refresh_token
                        # trakt_tokens[u].refresh_token
                 /\ trakt_tokens'[u].last_fetched_at
                        = trakt_tokens[u].last_fetched_at]_vars

\* A persisted pair was replaced by the pair of a refresh, then by the
\* older pair another pass had obtained, and the record was stamped.
C35_Witness ==
    /\ issued = MaxCallers + MaxCallbacks
    /\ trakt_tokens[RaceUser].access_token < issued
    /\ trakt_tokens[RaceUser].access_token > MaxCallbacks
    /\ trakt_tokens[RaceUser].last_fetched_at # <<>>
    /\ \A c \in Callers : rf.caller[c].refreshed

(***************************************************************************)
(* The gateway against a Redis server that other clients write to: an      *)
(* entry may hold text that is not JSON.  Every lookup returns, every job  *)
(* is started and every upstream call is answered.                         *)
(***************************************************************************)
NotJSON == <<"x">>

\* Another client of the server writes under a key of the gateway.
ForeignWrite(key) ==
    /\ redisUp
    /\ redisStore[key] = NoEntry
    /\ \A k \in CacheKeys : redisStore[k].val # NotJSON
    /\ redisStore' = [redisStore EXCEPT ![key] =
                         [val |-> NotJSON, exp |-> now + 1]]
    /\ UNCHANGED <<now, redisUp, redisUnavailable, req, queue, running>>
    /\ UNCHANGED <<started, syncVars, cat, siteVars>>

NextSettle ==
    \/ Tick
    \/ \E c \in GatewayCalls : ForeignWrite(c.key)
    \/ \E r \in Rid, c \in GatewayCalls : Call(r, c)
    \/ GatewayStep

SpecSettle ==
    /\ InitSync
    /\ [][NextSettle]_vars
    /\ WF_vars(GatewayStep)
    /\ WF_vars(Tick)

(***************************************************************************)
(* C36: every gateway request that was made eventually settles (resolves   *)
(* or rejects), given that its cache lookup returns and its upstream call  *)
(* is answered; also when the cached text cannot be parsed.                *)
(***************************************************************************)
C36_EveryRequestSettles ==
    \A r \in Rid : (req[r].pc # "idle") ~> (req[r].pc = "done")

(***************************************************************************)
(* C37: a failed upstream call writes nothing to the cache.  The step that *)
(* rejects a request (401, another HTTP status, a network error) leaves    *)
(* the store as it is; every entry of the store is the result of a request *)
(* that upstream answered with success; and a request for a key on which   *)
(* no other request succeeded is not served from the cache but calls       *)
(* upstream itself.                                                        *)
(***************************************************************************)
Succeeded(r) == req[r].pc # "idle" /\ req[r].up.st = "ok"

C37_FailureNeverCached ==
    /\ [](\A k \in CacheKeys :
            redisStore[k] # NoEntry =>
                \E r \in Rid :
                    /\ req[r].key = k
                    /\ Succeeded(r)
                    /\ redisStore[k].val
                           = JSONstringify(ResultOf(req[r].kind, req[r].up.val)))
    /\ [](\A r2 \in Rid :
            (/\ req[r2].pc = "done"
             /\ \A r1 \in Rid \ {r2} :
                    req[r1].key = req[r2].key => ~Succeeded(r1)) =>
                /\ ~req[r2].liveAtLookup
                /\ req[r2].calls = 1)
    /\ [][\A r \in Rid :
             (req[r].pc = "upstream" /\ req'[r].up.st = "err") =>
                 /\ redisStore' = redisStore
                 /\ req'[r].pc = "done"
                 /\ req'[r].out.st = "err"]_vars

\* A request was rejected with 401; the identical request went upstream
\* again and its result is the entry under the key.
C37_Witness ==
    \E r1, r2 \in Rid :
        /\ r1 < r2
        /\ req[r1].key = req[r2].key
        /\ req[r1].pc = "done" /\ req[r1].out.st = "err"
        /\ req[r1].out.status = 401
        /\ req[r2].pc = "done" /\ req[r2].out.st = "ok"
        /\ req[r2].calls = 1
        /\ ~req[r2].liveAtLookup
        /\ redisStore[req[r2].key].val = JSONstringify(req[r2].out.val)

(***************************************************************************)
(* The Fetch of a pass through the gateway.  fetchUserHistory calls        *)
(* fetchData, which calls makeGetRequest: each of the two history calls    *)
(* of a pass is a gateway request of its own, looked up in the cache under *)
(* the access token it is made with, queued on a miss, and stored on a     *)
(* 200.  The request of pass p, try a, batch b is req[FetchId(p, a, b)].   *)
(***************************************************************************)
\* The items upstream knows; a watched-history body lists items by number.
WatchedCatalogue == <<m1, mN, s1>>

HistoryBodies(b) == IF b = "movies" THEN {<<1, 2>>} ELSE {<<>>, <<3>>}

\* The history a parsed body stands for.
ItemsOf(body) == [i \in 1..Len(body) |-> WatchedCatalogue[body[i]]]

\* What fetchUserHistory hands handleTraktHistory once its request settled.
AnswerOf(rec) ==
    IF rec.out.st = "ok"
    THEN [st |-> "ok", history |-> ItemsOf(rec.out.val), status |-> 200]
    ELSE [st |-> "fail", history |-> <<>>, status |-> rec.out.status]

\* A mutant of IssueCalls: the history calls go to the queue without a
\* lookup.
IssueCalls_direct(p, attempt, token) ==
    LET c(b) == fetchUserHistory(pass[p].user, b, TokenText(token))
        rec(b) == [IdleReq EXCEPT !.kind = c(b).kind, !.args = c(b).args,
                                  !.key = c(b).key, !.pc = "queued",
                                  !.enq = TRUE]
        mv == FetchId(p, attempt, "movies")
        sh == FetchId(p, attempt, "shows")
    IN  /\ req' = [req EXCEPT ![mv] = rec("movies"), ![sh] = rec("shows")]
        /\ queue' = [queue EXCEPT !["GET"] = @ \o <<mv, sh>>]

\* Promise.all([fetchUserHistory(.., 'movies', ..), fetchUserHistory(..,
\* 'shows', ..)]): both calls run to their first await, the cache get
\* (or, with Redis marked unavailable, to the submission of their jobs).
IssueCalls(p, attempt, token) ==
    LET c(b) == fetchUserHistory(pass[p].user, b, TokenText(token))
        rec(b) == [IdleReq EXCEPT !.kind = c(b).kind, !.args = c(b).args,
                                  !.key = c(b).key]
        mv == FetchId(p, attempt, "movies")
        sh == FetchId(p, attempt, "shows")
    IN  IF redisUnavailable
        THEN /\ req' = [req EXCEPT
                          ![mv] = [rec("movies") EXCEPT !.pc = "queued",
                                                        !.enq = TRUE],
                          ![sh] = [rec("shows") EXCEPT !.pc = "queued",
                                                       !.enq = TRUE]]
             /\ queue' = [queue EXCEPT !["GET"] = @ \o <<mv, sh>>]
        ELSE /\ req' = [req EXCEPT
                          ![mv] = [rec("movies") EXCEPT !.pc = "awaitGet"],
                          ![sh] = [rec("shows") EXCEPT !.pc = "awaitGet"]]
             /\ UNCHANGED queue

\* The stored pair is read and both history calls are made with it.
FetchTokens(p) ==
    /\ pass[p].pc = "tokens"
    /\ LET row == trakt_tokens[pass[p].user] IN
       IF row.present
       THEN /\ pass' = [pass EXCEPT ![p] =
                          [@ EXCEPT
                             !.pc = "fetch", !.attempt = 1,
                             !.access_token = row.access_token,
                             !.refresh_token = row.refresh_token,
                             !.fetch = [b \in Batches |-> "pending"],
                             !.calls = @ \o <<<<"movies", row.access_token>>,
                                              <<"shows", row.access_token>>>>]]
            /\ IssueCalls(p, 1, row.access_token)
       ELSE /\ pass' = [pass EXCEPT ![p].pc = "annotate"]
            /\ UNCHANGED <<req, queue>>
    /\ UNCHANGED <<now, redisStore, redisUp, redisUnavailable, running,
                   started, cat, siteVars, trakt_tokens, trakt_history, hver,
                   issued, txn>>

\* updateTokensInDb settles, then both history calls are made again with
\* the new access token.
FetchUpdate(p) ==
    /\ pass[p].pc = "update"
    /\ trakt_tokens' = updateTokensInDb(pass[p].user, pass[p].access_token,
                                        pass[p].refresh_token)
    /\ pass' = [pass EXCEPT
                  ![p].pc = "fetch", ![p].attempt = 2,
                  ![p].fetch = [b \in Batches |-> "pending"],
                  ![p].persisted =
                        /\ trakt_tokens'[pass[p].user].access_token
                               = pass[p].access_token
                        /\ trakt_tokens'[pass[p].user].refresh_token
                               = pass[p].refresh_token,
                  ![p].calls = @ \o <<<<"movies", pass[p].access_token>>,
                                      <<"shows", pass[p].access_token>>>>]
    /\ IssueCalls(p, 2, pass[p].access_token)
    /\ UNCHANGED <<now, redisStore, redisUp, redisUnavailable, running,
                   started, cat, siteVars, trakt_history, hver, issued, txn>>

\* The request of a history call has settled: fetchUserHistory returns its
\* data or throws, and handleTraktHistory goes on as FetchReply describes.
FetchSettled(p, b) ==
    /\ pass[p].pc = "fetch"
    /\ LET r == FetchId(p, pass[p].attempt, b) IN
       /\ req[r].pc = "done"
       /\ FetchReply(p, b, AnswerOf(req[r]))

\* handleTraktHistory is called for the user with stored tokens.  Passes
\* follow each other, and the next one is taken up once the history calls
\* of the earlier one have settled; their settled requests and finished
\* transactions are dropped.
FetchStart(p) ==
    /\ pass[p].pc = "idle"
    /\ IF p = 1 THEN TRUE ELSE pass[p - 1].pc = "returned"
    /\ \A r \in FetchIds : req[r].pc \in {"idle", "done"}
    /\ pass' = [pass EXCEPT ![p] =
                  [IdlePass EXCEPT !.pc = "check", !.user = "u1"]]
    /\ req' = [r \in DOMAIN req |-> IF r \in FetchIds THEN IdleReq ELSE req[r]]
    /\ txn' = [q \in PassIds |-> [b \in Batches |-> NoTxn]]
    /\ UNCHANGED <<now, redisStore, redisUp, redisUnavailable, queue, running,
                   started, cat, siteVars, trakt_tokens, trakt_history, hver,
                   issued>>

NextFetch ==
    \/ Tick
    \/ \E p \in PassIds : FetchStart(p)
    \/ \E p \in PassIds : CheckReply(p)
    \/ \E p \in PassIds : FetchTokens(p)
    \/ \E r \in FetchIds, ok \in BOOLEAN : RedisGetReply(r, ok)
    \/ QueueStart("GET")
    \/ \E r \in FetchIds :
           /\ req[r].pc = "upstream"
           /\ \E data \in HistoryBodies(req[r].args.url[6]) :
                  UpstreamOk(r, data)
    \/ \E r \in FetchIds, status \in {401, 500} : UpstreamFail(r, status)
    \/ \E r \in FetchIds, ok \in BOOLEAN : RedisSetReply(r, ok)
    \/ \E p \in PassIds, b \in Batches : FetchSettled(p, b)
    \/ \E p \in PassIds : RefreshReply(p, TRUE)
    \/ \E p \in PassIds : FetchUpdate(p)
    \/ \E p \in PassIds, b \in Batches : TxSelectReply(p, b)
    \/ \E p \in PassIds, b \in Batches : TxWriteReply(p, b)
    \/ \E p \in PassIds, b \in Batches : TxCommitReply(p, b)
    \/ \E p \in PassIds : StampReply(p)
    \/ \E p \in PassIds : AnnotateReply(p, "movies")
    \/ \E p \in PassIds : Return(p)

SpecFetch == InitSync /\ [][NextFetch]_vars

(***************************************************************************)
(* C38: the Fetch of a pass goes through the Response Cache.  A history    *)
(* call of a pass whose lookup found a live entry under the key of its URL *)
(* and of the access token it is made with makes no upstream call and is   *)
(* answered with the parsed entry; the pass takes that (possibly stale)    *)
(* history as the batch to upsert, its rows are in the table when the      *)
(* saves have committed, and the pass then writes last_fetched_at.  A      *)
(* history call goes to the queue, and so upstream, only when no live      *)
(* entry exists under the key of the current access token (the entry has   *)
(* expired, or the token and with it the key has changed) or the cache is  *)
(* unavailable.                                                            *)
(***************************************************************************)
HistoryKey(p, b) ==
    fetchUserHistory(pass[p].user, b, TokenText(pass[p].access_token)).key

ServedFromCache(r) ==
    /\ req[r].liveAtLookup
    /\ req[r].calls = 0
    /\ ~req[r].enq
    /\ req[r].pc = "done"
    /\ req[r].out = [st |-> "ok", val |-> JSONparse(req[r].liveText),
                     status |-> 200]

RowUpserted(username, item) ==
    \E j \in 1..Len(trakt_history)' :
        /\ trakt_history'[j].username = username
        /\ trakt_history'[j].tmdb_id = item.tmdb
        /\ trakt_history'[j].title = item.title
        /\ trakt_history'[j].watched_at = item.last_watched_at

C38_FetchThroughCache ==
    /\ [](\A r \in FetchIds : req[r].liveAtLookup => ServedFromCache(r))
    /\ [](\A p \in PassIds, b \in Batches :
              (pass[p].pc = "fetch" /\ pass[p].fetch[b] = "pending") =>
                  req[FetchId(p, pass[p].attempt, b)].key = HistoryKey(p, b))
    /\ [][\A p \in PassIds, b \in Batches :
              (/\ pass[p].pc = "fetch"
               /\ pass[p].fetch[b] = "pending"
               /\ pass'[p].fetch[b] = "ok"
               /\ req[FetchId(p, pass[p].attempt, b)].liveAtLookup) =>
                  pass'[p].history[b] =
                      ItemsOf(JSONparse(
                          req[FetchId(p, pass[p].attempt, b)].liveText))]_vars
    /\ [][\A p \in PassIds :
              /\ (pass[p].pc = "save" /\ pass'[p].pc # "save"
                  /\ \A b \in Batches :
                         txn'[p][b].st \in {"committed", "skipped"}) =>
                     /\ pass'[p].pc = "stamp"
                     /\ \A b \in Batches :
                            \A i \in 1..Len(pass[p].history[b]) :
                                RowUpserted(pass[p].user, pass[p].history[b][i])
              /\ (pass[p].pc = "stamp" /\ pass'[p].pc # "stamp") =>
                     /\ pass'[p].stamped
                     /\ trakt_tokens'[pass[p].user].last_fetched_at
                            = <<pass[p].nowAt>>]_vars
    /\ [][\A r \in FetchIds :
              /\ (req[r].pc # "queued" /\ req'[r].pc = "queued") =>
                     ~Live(req'[r].key) \/ redisUnavailable'
              /\ req'[r].calls > req[r].calls => req[r].pc = "queued"]_vars

\* The second pass found both histories live in the cache, made no
\* upstream call and wrote last_fetched_at.
C38_Witness ==
    \E p \in PassIds :
        /\ pass[p].pc = "annotate"
        /\ pass[p].stamped
        /\ pass[p].attempt = 1
        /\ \A b \in Batches : ServedFromCache(FetchId(p, 1, b))
        /\ pass[p].history["movies"] = <<m1, mN>>
        /\ pass[p].history["shows"] = <<s1>>
        /\ trakt_tokens["u1"].last_fetched_at = <<pass[p].nowAt>>
        /\ pass[p].nowAt = 1

(***************************************************************************)
(* C39: the Synchronizer never deletes history rows.  Every step of every  *)
(* pass keeps each row of trakt_history with its username and imdb_id, so  *)
(* the set of (username, imdb_id) keys only grows; and every Annotate      *)
(* marks each listed item that has a row of the user and type, also when   *)
(* the history the pass fetched no longer holds the item.                  *)
(***************************************************************************)
HistoryKeys(table) ==
    {<<table[j].username, table[j].imdb_id>> : j \in 1..Len(table)}

C39_HistoryRowsNeverDeleted ==
    /\ [][/\ Len(trakt_history') >= Len(trakt_history)
          /\ \A j \in 1..Len(trakt_history) :
                 /\ trakt_history'[j].username = trakt_history[j].username
                 /\ trakt_history'[j].imdb_id = trakt_history[j].imdb_id
          /\ HistoryKeys(trakt_history) \subseteq HistoryKeys(trakt_history')
       ]_vars
    /\ [][\A p \in PassIds :
              (/\ pass[p].pc = "annotate"
               /\ pass'[p].pc = "done"
               /\ pass'[p].thrown = NoErr) =>
                  \A j \in 1..Len(trakt_history) :
                      \A i \in 1..Len(filteredResults) :
                          (/\ trakt_history[j].username = pass[p].user
                           /\ trakt_history[j].type = dbType(pass'[p].type)
                           /\ trakt_history[j].imdb_id = filteredResults[i].id)
                              => pass'[p].out[i].name[1] = watchedEmoji]_vars

\* The first pass saved the show; the second pass fetched a shows history
\* without it, committed its movies, and still marks the show.
C39_Witness ==
    \E p \in PassIds :
        /\ p > 1
        /\ pass[p].pc = "done"
        /\ pass[p].stamped
        /\ pass[p].fetch["shows"] = "ok"
        /\ pass[p].history["shows"] = <<>>
        /\ pass[p].type = "series"
        /\ <<"u1", "tt9">> \in HistoryKeys(trakt_history)
        /\ pass[p].out[2].name = <<watchedEmoji, " ", "S">>

====
